---- MODULE Spec2Model ----
(***************************************************************************)
(* Aegis gateway: the policy store (Manager), its hot reload, the          *)
(* evaluator and the per-request orchestration (Gateway.handleToolRequest) *)
(* with the audit emitter.                                                 *)
(*                                                                         *)
(* Strings that the code cuts or concatenates (paths, URLs, reasons) are   *)
(* sequences of string tokens, so that prefix tests, suffix trimming and   *)
(* formatting are computed and not assumed.                                *)
(***************************************************************************)
EXTENDS Integers, Sequences, FiniteSets, TLC

\* ------------------------------------------------------------------------
\* Bounds of the model
\* ------------------------------------------------------------------------

\* number of mutations of the policy directory by the operator
MaxDirOps == 1

\* number of errors waiting on the watcher's error channel
MaxWatchErrors == 1


\* ------------------------------------------------------------------------
\* Typed values (yaml.v3 and encoding/json decode into interface{})
\* ------------------------------------------------------------------------

IntV(n) == [t |-> "int", n |-> n]

FloatV(n) == [t |-> "float64", n |-> n]

StrV(s) == [t |-> "string", s |-> s]

ListV(l) == [t |-> "list", l |-> l]

BoolV(b) == [t |-> "bool", b |-> b]

\* the empty map (a nil map reads the same way)
EmptyMap == [k \in {} |-> TRUE]

\* ------------------------------------------------------------------------
\* Policy files: the texts that can be on disk and what yaml.Unmarshal
\* makes of them
\* ------------------------------------------------------------------------

Permission(tool, actions, conditions) ==
    [Tool |-> tool, Actions |-> actions, Conditions |-> conditions]

Agent(id, allow) == [ID |-> id, Allow |-> allow]

Policy(version, agents) == [Version |-> version, Agents |-> agents]

\* the policy of the repository's tests and demo
PolicyV1 ==
    Policy(1,
      << Agent("finance-agent",
           << Permission("payments", <<"create", "refund">>,
                [c \in {"max_amount", "currencies"} |->
                    IF c = "max_amount" THEN IntV(5000)
                    ELSE ListV(<<StrV(<<"USD">>), StrV(<<"EUR">>)>>)]) >>),
         Agent("hr-agent",
           << Permission("files", <<"read">>,
                [c \in {"folder_prefix"} |-> StrV(<<"/hr-docs", "/">>)]) >>) >>)

\* the same agent with a higher limit, and a tool no adapter serves, as
\* written by an operator
PolicyV2 ==
    Policy(2,
      << Agent("finance-agent",
           << Permission("payments", <<"create">>,
                [c \in {"max_amount"} |-> IntV(10000)]) >>),
         Agent("hr-agent",
           << Permission("archive", <<"read">>, EmptyMap) >>) >>)

\* parses, fails validation (version < 1)
PolicyV0 ==
    Policy(0,
      << Agent("finance-agent",
           << Permission("payments", <<"create">>, EmptyMap) >>) >>)

\* one agent with max_amount alone, given as an integer
PolicyInt ==
    Policy(3,
      << Agent("finance-agent",
           << Permission("payments", <<"create">>,
                [c \in {"max_amount"} |-> IntV(5000)]) >>) >>)

\* the same limit given as a floating-point number (max_amount: 5000.0)
PolicyFloat ==
    Policy(4,
      << Agent("finance-agent",
           << Permission("payments", <<"create">>,
                [c \in {"max_amount"} |-> FloatV(5000)]) >>) >>)

\* several permissions for one agent, tool and action, and an agent id
\* listed twice, the action cancel being listed by the last permission of
\* its second entry alone
PolicyOrder ==
    Policy(5,
      << Agent("finance-agent",
           << Permission("payments", <<"refund">>, EmptyMap),
              Permission("payments", <<"create">>,
                [c \in {"max_amount"} |-> IntV(100)]),
              Permission("payments", <<"create">>, EmptyMap) >>),
         Agent("finance-agent",
           << Permission("payments", <<"create">>, EmptyMap),
              Permission("payments", <<"cancel">>,
                [c \in {"max_amount"} |-> IntV(100)]) >>),
         Agent("hr-agent",
           << Permission("files", <<"read">>,
                [c \in {"folder_prefix"} |-> StrV(<<"/hr-docs", "/">>)]),
              Permission("files", <<"read">>, EmptyMap) >>) >>)

\* conditions the evaluator has no predicate for, and built-in conditions
\* whose value has the wrong type (max_amount: true, folder_prefix: 7,
\* currencies: USD)
PolicyOdd ==
    Policy(6,
      << Agent("finance-agent",
           << Permission("payments", <<"create">>,
                [c \in {"max_amount", "time_window", "currencies"} |->
                    CASE c = "max_amount" -> BoolV(TRUE)
                      [] c = "time_window" -> StrV(<<"09:00-17:00">>)
                      [] OTHER -> ListV(<<StrV(<<"USD">>), IntV(978)>>)]) >>),
         Agent("hr-agent",
           << Permission("files", <<"read">>,
                [c \in {"folder_prefix", "currencies"} |->
                    IF c = "folder_prefix" THEN IntV(7) ELSE StrV(<<"USD">>)]) >>) >>)

\* parses, fails validation (agents: [])
PolicyNoAgents == Policy(1, <<>>)

\* parses, fails validation (an agent without id)
PolicyEmptyID ==
    Policy(1,
      << Agent("finance-agent",
           << Permission("payments", <<"create">>, EmptyMap) >>),
         Agent("", << Permission("payments", <<"create">>, EmptyMap) >>) >>)

\* an agent with nothing allowed
PolicyEmptyAllow == Policy(1, << Agent("finance-agent", <<>>) >>)

\* the texts the operator writes
FileTexts == {"yaml-v1", "yaml-v2", "yaml-v0", "not-yaml"}

\* further texts a policy directory can hold
CornerTexts ==
    {"yaml-int", "yaml-float", "yaml-order", "yaml-odd", "yaml-no-agents",
     "yaml-empty-id", "yaml-empty-allow"}

\* the texts a file can hold
AnyText == FileTexts \cup CornerTexts

\* yaml.Unmarshal(fileData, &pol)
YamlUnmarshal(text) ==
    CASE text = "yaml-v1" -> [err |-> FALSE, pol |-> PolicyV1]
      [] text = "yaml-v2" -> [err |-> FALSE, pol |-> PolicyV2]
      [] text = "yaml-v0" -> [err |-> FALSE, pol |-> PolicyV0]
      [] text = "yaml-int" -> [err |-> FALSE, pol |-> PolicyInt]
      [] text = "yaml-float" -> [err |-> FALSE, pol |-> PolicyFloat]
      [] text = "yaml-order" -> [err |-> FALSE, pol |-> PolicyOrder]
      [] text = "yaml-odd" -> [err |-> FALSE, pol |-> PolicyOdd]
      [] text = "yaml-no-agents" -> [err |-> FALSE, pol |-> PolicyNoAgents]
      [] text = "yaml-empty-id" -> [err |-> FALSE, pol |-> PolicyEmptyID]
      [] text = "yaml-empty-allow" -> [err |-> FALSE, pol |-> PolicyEmptyAllow]
      [] OTHER -> [err |-> TRUE, pol |-> Policy(0, <<>>)]

\* a validation that looks at the id of the first agent only
check_policy_validFirstAgent(p) ==
    \/ p.Version < 1
    \/ Len(p.Agents) = 0
    \/ p.Agents[1].ID = ""

\* check_policy_valid: TRUE when the policy is rejected
check_policy_valid(p) ==
    \/ p.Version < 1
    \/ Len(p.Agents) = 0
    \/ \E i \in 1..Len(p.Agents) : p.Agents[i].ID = ""

\* ------------------------------------------------------------------------
\* Directory entries
\* ------------------------------------------------------------------------

\* names in the policy directory, in the order os.ReadDir returns them
EntryNames == <<"a.yaml", "b.yaml", "notes.txt">>

NameSet == {EntryNames[i] : i \in 1..Len(EntryNames)}

\* strings.HasSuffix(entry.Name(), ".yaml")
HasYamlSuffix(name) == name \in {"a.yaml", "b.yaml"}

Absent == "absent"

SubDir == "directory"

\* ------------------------------------------------------------------------
\* Evaluator helpers (policy.go)
\* ------------------------------------------------------------------------

\* the orders in which a Go range can visit the keys S of a map
Orders(S) ==
    {o \in [1..Cardinality(S) -> S] : \A i, j \in 1..Cardinality(S) : o[i] = o[j] => i = j}

\* fmt.Sprintf("%.2f", n) for a whole amount
FormatF2(n) == ToString(n) \o ".00"

\* a prefix test on path components: the prefix without its final slash,
\* followed by a slash or by nothing
HasPrefixOfComponents(s, prefix) ==
    LET dirname == IF Len(prefix) > 0 /\ prefix[Len(prefix)] = "/"
                   THEN SubSeq(prefix, 1, Len(prefix) - 1) ELSE prefix
    IN /\ Len(dirname) <= Len(s)
       /\ SubSeq(s, 1, Len(dirname)) = dirname
       /\ (Len(s) = Len(dirname) \/ s[Len(dirname) + 1] = "/")

\* strings.HasPrefix(s, prefix) on token sequences
HasPrefix(s, prefix) ==
    /\ Len(prefix) <= Len(s)
    /\ SubSeq(s, 1, Len(prefix)) = prefix

\* params[key].(float64)
IsFloat(params, key) == key \in DOMAIN params /\ params[key].t = "float64"

\* params[key].(string)
IsString(params, key) == key \in DOMAIN params /\ params[key].t = "string"

\* a max_amount check that passes a request without a numeric amount
MaxAmountReasonLenient(condVal, params) ==
    IF condVal.t \notin {"float64", "int"} THEN <<>>
    ELSE IF ~IsFloat(params, "amount") THEN <<>>
    ELSE IF params["amount"].n > condVal.n
         THEN <<"Amount ", FormatF2(params["amount"].n),
                " exceeds max_amount=", FormatF2(condVal.n)>>
         ELSE <<>>

\* a max_amount check that denies from the limit on
MaxAmountReasonAtLeast(condVal, params) ==
    IF condVal.t \notin {"float64", "int"} THEN <<>>
    ELSE IF ~IsFloat(params, "amount") THEN <<"Invalid amount parameter">>
    ELSE IF params["amount"].n >= condVal.n
         THEN <<"Amount ", FormatF2(params["amount"].n),
                " exceeds max_amount=", FormatF2(condVal.n)>>
         ELSE <<>>

\* case "max_amount": the reason, <<>> when the condition passes or is skipped
MaxAmountReason(condVal, params) ==
    IF condVal.t \notin {"float64", "int"} THEN <<>>
    ELSE IF ~IsFloat(params, "amount") THEN <<"Invalid amount parameter">>
    ELSE IF params["amount"].n > condVal.n
         THEN <<"Amount ", FormatF2(params["amount"].n),
                " exceeds max_amount=", FormatF2(condVal.n)>>
         ELSE <<>>

\* a currencies check that denies when the policy value is no list
CurrenciesReasonStrict(condVal, params) ==
    IF condVal.t # "list" THEN <<"Invalid currencies condition">>
    ELSE IF ~IsString(params, "currency") THEN <<"Invalid currency parameter">>
    ELSE IF \E i \in 1..Len(condVal.l) :
               condVal.l[i].t = "string" /\ condVal.l[i].s = params["currency"].s
         THEN <<>>
         ELSE <<"Currency ">> \o params["currency"].s \o <<" not in allowed list">>

\* case "currencies"
CurrenciesReason(condVal, params) ==
    IF condVal.t # "list" THEN <<>>
    ELSE IF ~IsString(params, "currency") THEN <<"Invalid currency parameter">>
    ELSE IF \E i \in 1..Len(condVal.l) :
               condVal.l[i].t = "string" /\ condVal.l[i].s = params["currency"].s
         THEN <<>>
         ELSE <<"Currency ">> \o params["currency"].s \o <<" not in allowed list">>

\* case "folder_prefix"
FolderPrefixReason(condVal, params) ==
    IF condVal.t # "string" THEN <<>>
    ELSE IF ~IsString(params, "path") THEN <<"Invalid path parameter">>
    ELSE IF ~HasPrefix(params["path"].s, condVal.s)
         THEN <<"Path ">> \o params["path"].s
                \o <<" does not match required prefix ">> \o condVal.s
         ELSE <<>>

\* one turn of the switch of check_conditions
ConditionReason(condName, condVal, params) ==
    CASE condName = "max_amount" -> MaxAmountReason(condVal, params)
      [] condName = "currencies" -> CurrenciesReason(condVal, params)
      [] condName = "folder_prefix" -> FolderPrefixReason(condVal, params)
      [] OTHER -> <<>>

\* check_conditions, the range over the map visiting the names in `order`:
\* the reason of the first condition that fails, <<>> when none does
check_conditions(conditions, order, params) ==
    LET failing == {i \in 1..Len(order) :
                       ConditionReason(order[i], conditions[order[i]], params) # <<>>}
    IN IF failing = {} THEN <<>>
       ELSE LET first == CHOOSE i \in failing : \A j \in failing : i <= j
            IN ConditionReason(order[first], conditions[order[first]], params)

\* for _, a := range perm.Actions { if a == action ... }
ActionAllowed(perm, action) == \E i \in 1..Len(perm.Actions) : perm.Actions[i] = action

\* an evaluator that looks at the first permission an agent entry has for
\* the tool and at no later one
MatchingPermissionsFirstForTool(policy, agentID, tool, action) ==
    {ij \in UNION {{<<i, j>> : j \in 1..Len(policy.Agents[i].Allow)} :
                       i \in 1..Len(policy.Agents)} :
        /\ policy.Agents[ij[1]].ID = agentID
        /\ policy.Agents[ij[1]].Allow[ij[2]].Tool = tool
        /\ \A j \in 1..(ij[2] - 1) : policy.Agents[ij[1]].Allow[j].Tool # tool
        /\ ActionAllowed(policy.Agents[ij[1]].Allow[ij[2]], action)}

\* an evaluator that matches on the agent and the tool alone
MatchingPermissionsAnyAction(policy, agentID, tool, action) ==
    {ij \in UNION {{<<i, j>> : j \in 1..Len(policy.Agents[i].Allow)} :
                       i \in 1..Len(policy.Agents)} :
        /\ policy.Agents[ij[1]].ID = agentID
        /\ policy.Agents[ij[1]].Allow[ij[2]].Tool = tool}

\* the (agent, permission) index pairs of a policy that Evaluate's inner
\* loops stop at: the agent id, the tool and the action match
MatchingPermissions(policy, agentID, tool, action) ==
    {ij \in UNION {{<<i, j>> : j \in 1..Len(policy.Agents[i].Allow)} :
                       i \in 1..Len(policy.Agents)} :
        /\ policy.Agents[ij[1]].ID = agentID
        /\ policy.Agents[ij[1]].Allow[ij[2]].Tool = tool
        /\ ActionAllowed(policy.Agents[ij[1]].Allow[ij[2]], action)}

\* an evaluator that lets the last matching permission decide
LastMatch(policy, agentID, tool, action) ==
    LET ms == MatchingPermissions(policy, agentID, tool, action)
        ij == CHOOSE m \in ms : \A o \in ms :
                  m[1] > o[1] \/ (m[1] = o[1] /\ m[2] >= o[2])
    IN policy.Agents[ij[1]].Allow[ij[2]]

\* the first of them in declared agent order, then permission order
FirstMatch(policy, agentID, tool, action) ==
    LET ms == MatchingPermissions(policy, agentID, tool, action)
        ij == CHOOSE m \in ms : \A o \in ms :
                  m[1] < o[1] \/ (m[1] = o[1] /\ m[2] <= o[2])
    IN policy.Agents[ij[1]].Allow[ij[2]]

\* the file of the aggregate Evaluate has ranged so far in which it found
\* a matching permission, and that permission: where Evaluate returned
Matched(ranged, agentID, tool, action) ==
    LET f == CHOOSE f \in DOMAIN ranged :
                 MatchingPermissions(ranged[f], agentID, tool, action) # {}
    IN [file |-> f, policy |-> ranged[f],
        perm |-> FirstMatch(ranged[f], agentID, tool, action)]

\* whether Evaluate found one
HasMatch(ranged, agentID, tool, action) ==
    \E f \in DOMAIN ranged : MatchingPermissions(ranged[f], agentID, tool, action) # {}

Decision(allow, reason, version) == [Allow |-> allow, Reason |-> reason, Version |-> version]

\* the Decision of the matched permission, its conditions ranged in `order`
PermissionDecision(policy, perm, order, params) ==
    LET reason == check_conditions(perm.Conditions, order, params)
    IN IF reason # <<>> THEN Decision(FALSE, reason, policy.Version)
       ELSE Decision(TRUE, <<"Policy allows this action">>, policy.Version)

\* no matching policy found
NoPolicyDecision(agentID, tool, action) ==
    Decision(FALSE,
             <<"No policy found for agent=", agentID, ", tool=", tool,
               ", action=", action>>, 0)

\* Manager.Evaluate on the aggregate agg: the decisions it can return, one
\* for each order in which the range can reach the files and check_conditions
\* the conditions. The first file reached that holds a matching permission
\* decides; with none, the no-match denial
Evaluate(agg, agentID, tool, action, params) ==
    LET matching == {f \in DOMAIN agg :
                        MatchingPermissions(agg[f], agentID, tool, action) # {}}
        perm(f) == FirstMatch(agg[f], agentID, tool, action)
    IN IF matching = {}
       THEN {NoPolicyDecision(agentID, tool, action)}
       ELSE UNION {{PermissionDecision(agg[f], perm(f), order, params) :
                        order \in Orders(DOMAIN perm(f).Conditions)} : f \in matching}

\* ------------------------------------------------------------------------
\* Requests (gateway.go)
\* ------------------------------------------------------------------------

BodyPayCreate == "{\"currency\":\"USD\",\"amount\":1000}"

BodyPayCreateSorted == "{\"amount\":1000,\"currency\":\"USD\"}"

BodyPayBig == "{\"amount\":7500,\"currency\":\"USD\"}"

BodyHrRead == "{\"path\":\"/hr-docs/handbook.pdf\"}"

BodyInvalid == "invalid json"

ParamsPayCreate ==
    [k \in {"amount", "currency"} |->
        IF k = "amount" THEN FloatV(1000) ELSE StrV(<<"USD">>)]

ParamsPayBig ==
    [k \in {"amount", "currency"} |->
        IF k = "amount" THEN FloatV(7500) ELSE StrV(<<"USD">>)]

ParamsHrRead == [k \in {"path"} |-> StrV(<<"/hr-docs", "/", "handbook.pdf">>)]

\* a JSON object as text (keys sorted, no space) and as json.Unmarshal
\* decodes it: a number is a float64, a string a string
Json(body, params) == [body |-> body, params |-> params]

Pay(amount, currency) ==
    [k \in {"amount", "currency"} |-> IF k = "amount" THEN amount ELSE currency]

\* further bodies a client can send: amounts at and just above a limit of
\* 5000, a currency no policy lists, fields that are missing or have the
\* wrong type, paths around the prefix /hr-docs/
CornerBodies ==
    { Json("{\"amount\":5000,\"currency\":\"USD\"}", Pay(FloatV(5000), StrV(<<"USD">>))),
      Json("{\"amount\":5001,\"currency\":\"USD\"}", Pay(FloatV(5001), StrV(<<"USD">>))),
      Json("{\"amount\":1000,\"currency\":\"GBP\"}", Pay(FloatV(1000), StrV(<<"GBP">>))),
      Json("{\"amount\":\"1000\",\"currency\":\"USD\"}",
           Pay(StrV(<<"1000">>), StrV(<<"USD">>))),
      Json("{\"amount\":1000,\"currency\":840}", Pay(FloatV(1000), FloatV(840))),
      Json("{\"currency\":\"USD\"}", [k \in {"currency"} |-> StrV(<<"USD">>)]),
      Json("{\"currency\":\"GBP\"}", [k \in {"currency"} |-> StrV(<<"GBP">>)]),
      Json("{\"amount\":1000}", [k \in {"amount"} |-> FloatV(1000)]),
      Json("{\"path\":\"/hr-docs/x\"}", [k \in {"path"} |-> StrV(<<"/hr-docs", "/", "x">>)]),
      Json("{\"path\":\"/hr-docs-x/y\"}",
           [k \in {"path"} |-> StrV(<<"/hr-docs", "-x", "/", "y">>)]),
      Json("{\"path\":\"/hr-docs\"}", [k \in {"path"} |-> StrV(<<"/hr-docs">>)]),
      Json("{\"path\":7}", [k \in {"path"} |-> FloatV(7)]),
      Json("{}", EmptyMap) }

\* bodies that are no JSON mapping: no byte at all, a JSON array, a JSON
\* number, the JSON value null (and BodyInvalid, which is no JSON)
BodyEmpty == ""

BodyArray == "[1,2]"

BodyScalar == "7"

BodyNull == "null"

NonMappingBodies == {BodyEmpty, BodyInvalid, BodyArray, BodyScalar, BodyNull}

\* a nil map[string]interface{}: it has none of the keys a condition
\* reads, and it is not the empty map
NilMap == [k \in {"<nil>"} |-> TRUE]

\* json.Unmarshal(requestBody, &requestParams): null is decoded without
\* error and leaves the map nil; what is no JSON, or is a JSON value of
\* another kind, is an error
JsonUnmarshal(body) ==
    CASE body \in {BodyPayCreate, BodyPayCreateSorted} ->
             [err |-> FALSE, params |-> ParamsPayCreate]
      [] body = BodyPayBig -> [err |-> FALSE, params |-> ParamsPayBig]
      [] body = BodyHrRead -> [err |-> FALSE, params |-> ParamsHrRead]
      [] \E j \in CornerBodies : j.body = body ->
             [err |-> FALSE, params |-> (CHOOSE j \in CornerBodies : j.body = body).params]
      [] body = BodyNull -> [err |-> FALSE, params |-> NilMap]
      [] OTHER -> [err |-> TRUE, params |-> EmptyMap]

\* the keys of the request bodies, in the order sort.Strings gives them
SortedKeys == <<"amount", "currency", "path">>

\* the text of a string kept as tokens
Join(tokens) ==
    LET F[i \in 0..Len(tokens)] == IF i = 0 THEN "" ELSE F[i - 1] \o tokens[i]
    IN F[Len(tokens)]

\* json.Marshal of a value that json.Unmarshal decoded: a whole number
\* without fraction, a string between quotes, a list between brackets
RECURSIVE JsonValue(_)
JsonValue(v) ==
    CASE v.t \in {"float64", "int"} -> ToString(v.n)
      [] v.t = "string" -> "\"" \o Join(v.s) \o "\""
      [] v.t = "bool" -> IF v.b THEN "true" ELSE "false"
      [] OTHER ->
          LET F[i \in 0..Len(v.l)] ==
                  IF i = 0 THEN ""
                  ELSE F[i - 1] \o (IF i = 1 THEN "" ELSE ",") \o JsonValue(v.l[i])
          IN "[" \o F[Len(v.l)] \o "]"

\* a serialization that writes the keys and leaves the values out
JsonMarshalKeysOnly(params) ==
    LET F[i \in 0..Len(SortedKeys)] ==
            IF i = 0 THEN ""
            ELSE IF SortedKeys[i] \notin DOMAIN params THEN F[i - 1]
            ELSE F[i - 1] \o (IF F[i - 1] = "" THEN "" ELSE ",")
                     \o "\"" \o SortedKeys[i] \o "\":null"
    IN "{" \o F[Len(SortedKeys)] \o "}"

\* json.Marshal of a mapping: the members in the sorted order of their
\* keys, no insignificant space; null for a nil map
JsonMarshal(params) ==
    LET F[i \in 0..Len(SortedKeys)] ==
            IF i = 0 THEN ""
            ELSE IF SortedKeys[i] \notin DOMAIN params THEN F[i - 1]
            ELSE F[i - 1] \o (IF F[i - 1] = "" THEN "" ELSE ",")
                     \o "\"" \o SortedKeys[i] \o "\":" \o JsonValue(params[SortedKeys[i]])
    IN IF params = NilMap THEN "null" ELSE "{" \o F[Len(SortedKeys)] \o "}"

\* the bodies above that are JSON mappings
MappingBodies ==
    {BodyPayCreate, BodyPayCreateSorted, BodyPayBig, BodyHrRead}
        \cup {j.body : j \in CornerBodies}

\* a body whose read fails (the client goes away while sending it)
BodyAborted == "<aborted>"

\* io.ReadAll(r.Body)
ReadAll(body) ==
    IF body = BodyAborted THEN [err |-> TRUE, data |-> ""] ELSE [err |-> FALSE, data |-> body]

\* the tool calls a client sends
ToolRequest(agent, parent, tool, action, body) ==
    [agent |-> agent, parent |-> parent, tool |-> tool, action |-> action, body |-> body]

ToolRequests ==
    { ToolRequest("", "", "payments", "create", BodyPayCreate),
      ToolRequest("finance-agent", "", "payments", "create", BodyInvalid),
      ToolRequest("finance-agent", "", "payments", "create", BodyAborted),
      ToolRequest("finance-agent", "", "payments", "create", BodyPayCreate),
      ToolRequest("finance-agent", "planner", "payments", "create", BodyPayBig),
      ToolRequest("finance-agent", "", "unknown-tool", "action", BodyPayCreate),
      ToolRequest("hr-agent", "", "files", "read", BodyHrRead),
      ToolRequest("hr-agent", "", "archive", "read", BodyHrRead) }

\* the adapter registry main constructs the gateway with
adapterMap ==
    [t \in {"payments", "files"} |->
        IF t = "payments" THEN <<"http://localhost:8081">> ELSE <<"http://localhost:8082">>]

\* the adapter registries NewGateway can be given: the one of main, one
\* whose base URL is written with a trailing slash, and one with no adapter
AdapterMaps ==
    {adapterMap, [t \in {"files"} |-> <<"http://localhost:8082", "/">>], EmptyMap}

\* strings.TrimSuffix(adapterURL, "/")
TrimSlash(url) ==
    IF Len(url) > 0 /\ url[Len(url)] = "/" THEN SubSeq(url, 1, Len(url) - 1) ELSE url

\* fmt.Sprintf("%s/%s", strings.TrimSuffix(adapterURL, "/"), actionName)
TargetURL(adapterURL, actionName) == TrimSlash(adapterURL) \o <<"/", actionName>>

\* what an adapter call can come to: a transport error or timeout, a
\* response whose body cannot be read, or a response
AdapterOutcomes ==
    { [kind |-> "error", status |-> 0, body |-> "connection refused"],
      [kind |-> "unreadable", status |-> 200, body |-> ""],
      [kind |-> "response", status |-> 200, body |-> "{\"status\":\"created\"}"],
      [kind |-> "response", status |-> 500, body |-> "{\"error\":\"adapter failed\"}"] }

ErrorResponse(status, error, reason) ==
    [status |-> status, error |-> error, reason |-> reason, body |-> "",
     contentType |-> "application/json",
     keys |-> IF reason = <<>> THEN {"error"} ELSE {"error", "reason"}]

Relayed(status, body) ==
    [status |-> status, error |-> "", reason |-> <<>>, body |-> body,
     contentType |-> "application/json", keys |-> {}]

NoResponse ==
    [status |-> 0, error |-> "", reason |-> <<>>, body |-> "", contentType |-> "", keys |-> {}]

\* ------------------------------------------------------------------------
\* State
\* ------------------------------------------------------------------------

\* the goroutines that reload: the watcher loop and the handler of
\* POST /policies/reload
Reloaders == {"watcher", "manual"}

\* the goroutines serving tool calls
Requests == {"q1", "q2"}

NoOne == "none"

VARIABLES
    dir,          \* the policy directory: name -> text, Absent or SubDir
    dirReadable,  \* whether os.ReadDir(m.dir) succeeds
    dirOps,       \* writes, removals and renames in the directory so far
    events,       \* g.watcher.Events: the Op of each event not yet received
    watchErrors,  \* g.watcher.Errors: the number of errors not yet received
    closed,       \* whether g.watcher is closed (its channels are closed)
    maps,         \* the map[string]Policy values in memory, by address
    policies,     \* m.policies: the address of the published map
    mu,           \* m.mu: the writer holding it and the readers holding it
    adapters,     \* g.adapters: tool name -> base URL
    healthResp,   \* the last response of GET /health
    lpc,          \* where each reloader is in load_policies
    entries,      \* load_policies' entries (os.ReadDir's result)
    next,         \* load_policies' position in entries
    newPolicies,  \* load_policies' newPolicies: an address
    result,       \* per reloader, what its last Reload returned
    reloadResp,   \* the last response of POST /policies/reload
    rpc,          \* where each request is in handleToolRequest
    req,          \* the tool call each request serves
    params,       \* handleToolRequest's requestParams
    it,           \* Evaluate's range: the address of the map ranged
    visited,      \* the files Evaluate's range has passed
    decision,     \* handleToolRequest's decision
    auditLog,     \* the audit records emitted on standard output, in order
    logFile,      \* the audit log file: the writes appended to it, in order
    posts,        \* per request, the POSTs sent to adapters
    resp,         \* per request, the response written
    lastPub,      \* history: the aggregate last published, the directory
                  \* its load listed and whether it stayed so during the load
    snap,         \* history: per request, lastPub when Evaluate took the lock
    seen,         \* history: per request, what Evaluate read of each file
    view          \* history: per reloader under way, the directory as
                  \* load_policies listed it, whether it stayed so, and
                  \* whether another load has listed the directory since

vars == <<dir, dirReadable, dirOps, events, watchErrors, closed, maps, policies, mu, adapters, healthResp, lpc, entries,
          next, newPolicies, result, reloadResp, rpc, req, params, it,
          visited, decision, auditLog, logFile, posts, resp, lastPub, snap, seen, view>>

dirVars == <<dir, dirReadable, dirOps, events, watchErrors, closed>>

storeVars == <<maps, policies, mu, adapters, healthResp>>

loadVars == <<lpc, entries, next, newPolicies, result, reloadResp>>

reqVars == <<rpc, req, params, it, visited, decision, auditLog, logFile, posts, resp>>

histVars == <<lastPub, snap, seen, view>>

\* the directory a gateway is started on
InitDir ==
    [n \in NameSet |->
        CASE n = "a.yaml" -> "yaml-v1"
          [] n = "notes.txt" -> "yaml-v2"
          [] OTHER -> Absent]

\* what load_policies keeps of a directory that stays as it is: the .yaml
\* files that are no directory, parse and validate
ValidPolicies(d) ==
    LET kept == {n \in NameSet :
                    /\ HasYamlSuffix(n)
                    /\ d[n] \in AnyText
                    /\ ~YamlUnmarshal(d[n]).err
                    /\ ~check_policy_valid(YamlUnmarshal(d[n]).pol)}
    IN [n \in kept |-> YamlUnmarshal(d[n]).pol]

NoRequest == ToolRequest("", "", "", "", "")

NoDecision == Decision(FALSE, <<>>, -1)

Publication(agg, d, stable) == [agg |-> agg, dir |-> d, stable |-> stable]

NoView == [dir |-> InitDir, stable |-> TRUE, overtaken |-> FALSE]

NoSnap == Publication(EmptyMap, InitDir, TRUE)

NoReloadResponse == [status |-> 0, error |-> "", body |-> "", contentType |-> "", keys |-> {}]

NoHealthResponse == [status |-> 0, body |-> "", contentType |-> ""]

\* the state after NewGateway on directory d with adapter registry am:
\* NewManager has loaded d, the routes are set and the watcher loop is running
InitOn(d, am) ==
    /\ dir = d
    /\ dirReadable = TRUE
    /\ dirOps = 0
    /\ events = <<>>
    /\ watchErrors = 0
    /\ closed = FALSE
    /\ maps = [a \in {1} |-> ValidPolicies(d)]
    /\ policies = 1
    /\ mu = [writer |-> NoOne, readers |-> {}]
    /\ adapters = am
    /\ healthResp = NoHealthResponse
    /\ lpc = [r \in Reloaders |-> "idle"]
    /\ entries = [r \in Reloaders |-> <<>>]
    /\ next = [r \in Reloaders |-> 1]
    /\ newPolicies = [r \in Reloaders |-> 0]
    /\ result = [r \in Reloaders |-> "none"]
    /\ reloadResp = NoReloadResponse
    /\ rpc = [q \in Requests |-> "idle"]
    /\ req = [q \in Requests |-> NoRequest]
    /\ params = [q \in Requests |-> EmptyMap]
    /\ it = [q \in Requests |-> 0]
    /\ visited = [q \in Requests |-> {}]
    /\ decision = [q \in Requests |-> NoDecision]
    /\ auditLog = <<>>
    /\ logFile = <<>>
    /\ posts = [q \in Requests |-> <<>>]
    /\ resp = [q \in Requests |-> NoResponse]
    /\ lastPub = Publication(ValidPolicies(d), d, TRUE)
    /\ snap = [q \in Requests |-> NoSnap]
    /\ seen = [q \in Requests |-> EmptyMap]
    /\ view = [r \in Reloaders |-> NoView]

Init == InitOn(InitDir, adapterMap)

\* ------------------------------------------------------------------------
\* The operator's edits of the policy directory, as fsnotify reports them
\* ------------------------------------------------------------------------

\* the files the operator edits
Edited == {"a.yaml", "b.yaml"}

\* fsnotify reports an operation on the watched directory, while the
\* watcher is open
Notify(op) == IF closed THEN events ELSE Append(events, op)

\* a load that is under way no longer sees the directory it listed
Disturbed ==
    [r \in Reloaders |-> IF lpc[r] = "idle" THEN view[r] ELSE [view[r] EXCEPT !.stable = FALSE]]

\* os.WriteFile(policyPath, text): a new file or new content
WriteFile(n, text) ==
    /\ dirOps < MaxDirOps
    /\ dir[n] # SubDir
    /\ dir[n] # text
    /\ dir' = [dir EXCEPT ![n] = text]
    /\ events' = Notify(IF dir[n] = Absent THEN "CREATE" ELSE "WRITE")
    /\ dirOps' = dirOps + 1
    /\ view' = Disturbed
    /\ UNCHANGED <<dirReadable, watchErrors, closed, storeVars, loadVars, reqVars,
                   lastPub, snap, seen>>

\* os.Remove(policyPath)
RemoveFile(n) ==
    /\ dirOps < MaxDirOps
    /\ dir[n] \in AnyText
    /\ dir' = [dir EXCEPT ![n] = Absent]
    /\ events' = Notify("REMOVE")
    /\ dirOps' = dirOps + 1
    /\ view' = Disturbed
    /\ UNCHANGED <<dirReadable, watchErrors, closed, storeVars, loadVars, reqVars,
                   lastPub, snap, seen>>

\* os.Rename(policyPath, a path outside the directory)
RenameAway(n) ==
    /\ dirOps < MaxDirOps
    /\ dir[n] \in AnyText
    /\ dir' = [dir EXCEPT ![n] = Absent]
    /\ events' = Notify("RENAME")
    /\ dirOps' = dirOps + 1
    /\ view' = Disturbed
    /\ UNCHANGED <<dirReadable, watchErrors, closed, storeVars, loadVars, reqVars,
                   lastPub, snap, seen>>

\* the directory stops or starts being readable (permissions, a mount)
SetReadable(b) ==
    /\ dirReadable # b
    /\ dirReadable' = b
    /\ view' = Disturbed
    /\ UNCHANGED <<dir, dirOps, events, watchErrors, closed, storeVars, loadVars, reqVars,
                   lastPub, snap, seen>>

\* ------------------------------------------------------------------------
\* Memory: maps live at addresses; a map no goroutine refers to is gone
\* ------------------------------------------------------------------------

\* a map with key k set to v
MapSet(m, k, v) == [x \in DOMAIN m \cup {k} |-> IF x = k THEN v ELSE m[x]]

\* make(map[string]Policy): a free address
Alloc(ms) ==
    CHOOSE a \in 1..(Cardinality(DOMAIN ms) + 1) :
        a \notin DOMAIN ms /\ \A b \in 1..(a - 1) : b \in DOMAIN ms

\* the garbage collector: only the maps at the addresses in live stay
Collect(ms, live) == [a \in DOMAIN ms \cap live |-> ms[a]]

\* ------------------------------------------------------------------------
\* Manager.load_policies, called by Reload
\* ------------------------------------------------------------------------

\* os.ReadDir: the entries present, sorted by name, each with its type
ReadDir(d) ==
    LET F[i \in 0..Len(EntryNames)] ==
            IF i = 0 THEN <<>>
            ELSE IF d[EntryNames[i]] # Absent
                 THEN Append(F[i - 1], [Name |-> EntryNames[i],
                                        IsDir |-> d[EntryNames[i]] = SubDir])
                 ELSE F[i - 1]
    IN F[Len(EntryNames)]

\* a loop that skips the directories only and reads every file
SkippedDirsOnly(entry) == entry.IsDir

\* if entry.IsDir() || !strings.HasSuffix(entry.Name(), ".yaml") { continue }
Skipped(entry) == entry.IsDir \/ ~HasYamlSuffix(entry.Name)

\* the position of the first entry from i on that the loop reads
NextFile(es, i) ==
    LET rest == {j \in i..Len(es) : ~Skipped(es[j])}
    IN IF rest = {} THEN Len(es) + 1 ELSE CHOOSE j \in rest : \A k \in rest : j <= k

\* Reload returns to its caller: the watcher loop prints the outcome,
\* handle_reload answers 500 ReloadFailed or 200 reloaded
ReloadReturns(r, res) ==
    /\ result' = [result EXCEPT ![r] = res]
    /\ reloadResp' =
          IF r # "manual" THEN reloadResp
          ELSE IF res = "error"
               THEN [status |-> 500, error |-> "ReloadFailed", body |-> "",
                     contentType |-> "text/plain; charset=utf-8",
                     keys |-> {"error", "message"}]
               ELSE [status |-> 200, error |-> "", body |-> "{\"status\":\"reloaded\"}",
                     contentType |-> "application/json", keys |-> {"status"}]
    /\ lpc' = [lpc EXCEPT ![r] = "idle"]

\* reloader r has listed the directory: its view, and the loads under way
\* that listed it before are overtaken
Listed(r) ==
    [x \in Reloaders |->
        IF x = r THEN [dir |-> dir, stable |-> TRUE, overtaken |-> FALSE]
        ELSE IF lpc[x] \in {"lock", "entries"} THEN [view[x] EXCEPT !.overtaken = TRUE]
        ELSE view[x]]

\* a load that empties the published map when the directory cannot be read
LoadReadDirClearing(r) ==
    /\ lpc[r] = "readdir"
    /\ IF ~dirReadable
       THEN /\ ReloadReturns(r, "error")
            /\ maps' = [maps EXCEPT ![policies] = EmptyMap]
            /\ UNCHANGED <<entries, view>>
       ELSE /\ entries' = [entries EXCEPT ![r] = ReadDir(dir)]
            /\ lpc' = [lpc EXCEPT ![r] = "lock"]
            /\ view' = Listed(r)
            /\ UNCHANGED <<result, reloadResp, maps>>
    /\ UNCHANGED <<dirVars, policies, mu, adapters, healthResp, next, newPolicies, reqVars,
                   lastPub, snap, seen>>

\* entries, err := os.ReadDir(m.dir); if err != nil { return ... }
LoadReadDir(r) ==
    /\ lpc[r] = "readdir"
    /\ IF ~dirReadable
       THEN /\ ReloadReturns(r, "error")
            /\ UNCHANGED <<entries, view>>
       ELSE /\ entries' = [entries EXCEPT ![r] = ReadDir(dir)]
            /\ lpc' = [lpc EXCEPT ![r] = "lock"]
            /\ view' = Listed(r)
            /\ UNCHANGED <<result, reloadResp>>
    /\ UNCHANGED <<dirVars, storeVars, next, newPolicies, reqVars,
                   lastPub, snap, seen>>

\* a load that starts from a copy of the published map instead of an empty
\* one, so that what it does not replace stays
LoadLockFromCopy(r) ==
    /\ lpc[r] = "lock"
    /\ mu.writer = NoOne
    /\ mu.readers = {}
    /\ mu' = [mu EXCEPT !.writer = r]
    /\ maps' = MapSet(maps, Alloc(maps), maps[policies])
    /\ newPolicies' = [newPolicies EXCEPT ![r] = Alloc(maps)]
    /\ next' = [next EXCEPT ![r] = NextFile(entries[r], 1)]
    /\ lpc' = [lpc EXCEPT ![r] = "entries"]
    /\ UNCHANGED <<dirVars, policies, adapters, healthResp, entries, result,
                   reloadResp, reqVars, histVars>>

\* a load that takes no lock and fills m.policies itself: the fresh map is
\* installed at once and the entries are added to it in place
LoadLockInPlace(r) ==
    /\ lpc[r] = "lock"
    /\ maps' = MapSet(maps, Alloc(maps), EmptyMap)
    /\ newPolicies' = [newPolicies EXCEPT ![r] = Alloc(maps)]
    /\ policies' = Alloc(maps)
    /\ next' = [next EXCEPT ![r] = NextFile(entries[r], 1)]
    /\ lpc' = [lpc EXCEPT ![r] = "entries"]
    /\ UNCHANGED <<dirVars, mu, adapters, healthResp, entries, result, reloadResp, reqVars, histVars>>

\* m.mu.Lock(); newPolicies := make(map[string]Policy)
LoadLock(r) ==
    /\ lpc[r] = "lock"
    /\ mu.writer = NoOne
    /\ mu.readers = {}
    /\ mu' = [mu EXCEPT !.writer = r]
    /\ maps' = MapSet(maps, Alloc(maps), EmptyMap)
    /\ newPolicies' = [newPolicies EXCEPT ![r] = Alloc(maps)]
    /\ next' = [next EXCEPT ![r] = NextFile(entries[r], 1)]
    /\ lpc' = [lpc EXCEPT ![r] = "entries"]
    /\ UNCHANGED <<dirVars, policies, adapters, healthResp, entries, result,
                   reloadResp, reqVars, histVars>>

\* a loop that adds every policy that parses, validated or not
LoadEntryUnvalidated(r) ==
    /\ lpc[r] = "entries"
    /\ next[r] <= Len(entries[r])
    /\ LET name == entries[r][next[r]].Name
           text == dir[name]
           got == YamlUnmarshal(text)
       IN IF text \notin AnyText \/ got.err
          THEN UNCHANGED maps
          ELSE maps' = [maps EXCEPT ![newPolicies[r]] = MapSet(@, name, got.pol)]
    /\ next' = [next EXCEPT ![r] = NextFile(entries[r], next[r] + 1)]
    /\ UNCHANGED <<dirVars, policies, mu, adapters, healthResp, lpc, entries, newPolicies, result,
                   reloadResp, reqVars, histVars>>

\* one turn of the loop over entries: read, parse, validate, add
LoadEntry(r) ==
    /\ lpc[r] = "entries"
    /\ next[r] <= Len(entries[r])
    /\ LET name == entries[r][next[r]].Name
           text == dir[name]
           got == YamlUnmarshal(text)
       IN IF text \notin AnyText \/ got.err \/ check_policy_valid(got.pol)
          THEN UNCHANGED maps
          ELSE maps' = [maps EXCEPT ![newPolicies[r]] = MapSet(@, name, got.pol)]
    /\ next' = [next EXCEPT ![r] = NextFile(entries[r], next[r] + 1)]
    /\ UNCHANGED <<dirVars, policies, mu, adapters, healthResp, lpc, entries, newPolicies, result,
                   reloadResp, reqVars, histVars>>

\* a load that leaves the published map in place when the one it built is
\* empty
LoadPublishUnlessEmpty(r) ==
    /\ lpc[r] = "entries"
    /\ next[r] > Len(entries[r])
    /\ policies' = IF maps[newPolicies[r]] = EmptyMap THEN policies ELSE newPolicies[r]
    /\ mu' = [mu EXCEPT !.writer = NoOne]
    /\ maps' = Collect(maps, {policies'} \cup {newPolicies[x] : x \in Reloaders \ {r}}
                                \cup {it[q] : q \in Requests})
    /\ newPolicies' = [newPolicies EXCEPT ![r] = 0]
    /\ entries' = [entries EXCEPT ![r] = <<>>]
    /\ next' = [next EXCEPT ![r] = 1]
    /\ lastPub' = Publication(maps[newPolicies[r]], view[r].dir, view[r].stable)
    /\ view' = [view EXCEPT ![r] = NoView]
    /\ ReloadReturns(r, "ok")
    /\ UNCHANGED <<dirVars, adapters, healthResp, reqVars, snap, seen>>

\* a load that returns without the deferred m.mu.Unlock()
LoadPublishKeepingLock(r) ==
    /\ lpc[r] = "entries"
    /\ next[r] > Len(entries[r])
    /\ policies' = newPolicies[r]
    /\ maps' = Collect(maps, {newPolicies[x] : x \in Reloaders} \cup {it[q] : q \in Requests})
    /\ newPolicies' = [newPolicies EXCEPT ![r] = 0]
    /\ entries' = [entries EXCEPT ![r] = <<>>]
    /\ next' = [next EXCEPT ![r] = 1]
    /\ lastPub' = Publication(maps[newPolicies[r]], view[r].dir, view[r].stable)
    /\ view' = [view EXCEPT ![r] = NoView]
    /\ ReloadReturns(r, "ok")
    /\ UNCHANGED <<dirVars, mu, adapters, healthResp, reqVars, snap, seen>>

\* m.policies = newPolicies; return nil (and the deferred m.mu.Unlock())
LoadPublish(r) ==
    /\ lpc[r] = "entries"
    /\ next[r] > Len(entries[r])
    /\ policies' = newPolicies[r]
    /\ mu' = [mu EXCEPT !.writer = NoOne]
    /\ maps' = Collect(maps, {newPolicies[x] : x \in Reloaders} \cup {it[q] : q \in Requests})
    /\ newPolicies' = [newPolicies EXCEPT ![r] = 0]
    /\ entries' = [entries EXCEPT ![r] = <<>>]
    /\ next' = [next EXCEPT ![r] = 1]
    /\ lastPub' = Publication(maps[newPolicies[r]], view[r].dir, view[r].stable)
    /\ view' = [view EXCEPT ![r] = NoView]
    /\ ReloadReturns(r, "ok")
    /\ UNCHANGED <<dirVars, adapters, healthResp, reqVars, snap, seen>>

\* ------------------------------------------------------------------------
\* Gateway.watchPolicies and Gateway.handle_reload
\* ------------------------------------------------------------------------

\* a watcher loop that reloads on a write alone
WatchEventWriteOnly ==
    /\ lpc["watcher"] = "idle"
    /\ events # <<>>
    /\ events' = Tail(events)
    /\ lpc' = [lpc EXCEPT !["watcher"] =
                  IF Head(events) = "WRITE" THEN "readdir" ELSE "idle"]
    /\ UNCHANGED <<dir, dirReadable, dirOps, watchErrors, closed, storeVars, entries, next,
                   newPolicies,
                   result, reloadResp, reqVars, histVars>>

\* case event, ok := <-g.watcher.Events: reload on write or create
WatchEvent ==
    /\ lpc["watcher"] = "idle"
    /\ events # <<>>
    /\ events' = Tail(events)
    /\ lpc' = [lpc EXCEPT !["watcher"] =
                  IF Head(events) \in {"WRITE", "CREATE"} THEN "readdir" ELSE "idle"]
    /\ UNCHANGED <<dir, dirReadable, dirOps, watchErrors, closed, storeVars, entries, next,
                   newPolicies,
                   result, reloadResp, reqVars, histVars>>

\* fsnotify signals an error on g.watcher.Errors
WatcherFault ==
    /\ ~closed
    /\ watchErrors < MaxWatchErrors
    /\ watchErrors' = watchErrors + 1
    /\ UNCHANGED <<dir, dirReadable, dirOps, events, closed, storeVars, loadVars, reqVars,
                   histVars>>

\* a watcher loop that ends when it receives an error value
WatchErrorStops ==
    /\ lpc["watcher"] = "idle"
    /\ watchErrors > 0
    /\ watchErrors' = watchErrors - 1
    /\ lpc' = [lpc EXCEPT !["watcher"] = "stopped"]
    /\ UNCHANGED <<dir, dirReadable, dirOps, events, closed, storeVars, entries, next,
                   newPolicies, result, reloadResp, reqVars, histVars>>

\* case err, ok := <-g.watcher.Errors: the error is printed, the loop goes on
WatchError ==
    /\ lpc["watcher"] = "idle"
    /\ watchErrors > 0
    /\ watchErrors' = watchErrors - 1
    /\ UNCHANGED <<dir, dirReadable, dirOps, events, closed, storeVars, loadVars, reqVars,
                   histVars>>

\* Gateway.Close: g.watcher.Close() closes both channels; what was not
\* received is lost
CloseWatcher ==
    /\ ~closed
    /\ closed' = TRUE
    /\ events' = <<>>
    /\ watchErrors' = 0
    /\ UNCHANGED <<dir, dirReadable, dirOps, storeVars, loadVars, reqVars, histVars>>

\* if !ok { return }: the loop finds a channel closed and ends
WatchStop ==
    /\ lpc["watcher"] = "idle"
    /\ closed
    /\ lpc' = [lpc EXCEPT !["watcher"] = "stopped"]
    /\ UNCHANGED <<dirVars, storeVars, entries, next, newPolicies, result, reloadResp,
                   reqVars, histVars>>

\* POST /policies/reload arrives: handle_reload calls Reload
HandleReload ==
    /\ lpc["manual"] = "idle"
    /\ lpc' = [lpc EXCEPT !["manual"] = "readdir"]
    /\ UNCHANGED <<dirVars, storeVars, entries, next, newPolicies, result, reloadResp,
                   reqVars, histVars>>

\* GET /health: handle_health answers 200 {"status":"healthy"}
HandleHealth ==
    /\ healthResp' = [status |-> 200, body |-> "{\"status\":\"healthy\"}",
                      contentType |-> "application/json"]
    /\ UNCHANGED <<dirVars, maps, policies, mu, adapters, loadVars, reqVars, histVars>>

\* ------------------------------------------------------------------------
\* Gateway.handleToolRequest
\* ------------------------------------------------------------------------

\* sha256.Sum256(data): a [32]byte; two inputs with one digest are not
\* found, so the digest stands for its input
Sum256(data) == [size |-> 32, of |-> data]

\* hex.EncodeToString(h[:]): two characters for each byte
EncodeToString(h) == [len |-> 2 * h.size, of |-> h.of]

\* policy.HashParams: data, _ := json.Marshal(params); the SHA-256 of data
\* in hexadecimal
HashParams(p) == EncodeToString(Sum256(JsonMarshal(p)))

Done(q, response) ==
    /\ resp' = [resp EXCEPT ![q] = response]
    /\ rpc' = [rpc EXCEPT ![q] = "done"]
    /\ snap' = [snap EXCEPT ![q] = NoSnap]
    /\ seen' = [seen EXCEPT ![q] = EmptyMap]

\* a call without its X-Parent-Agent header
WithoutParent(r) == [r EXCEPT !.parent = ""]

\* the calls that arrive: any call on the first connection; the second
\* client sends the same call as the first, at any later time, under an
\* X-Parent-Agent header of its own
Arrives(q, r) ==
    \/ q = "q1"
    \/ q = "q2" /\ rpc["q1"] # "idle" /\ WithoutParent(r) = WithoutParent(req["q1"])

\* a handler that does not check the X-Agent-ID header
RejectionNoHeaderCheck(r) ==
    IF ReadAll(r.body).err
    THEN ErrorResponse(400, "InvalidRequest", <<"Failed to read request body">>)
    ELSE IF JsonUnmarshal(ReadAll(r.body).data).err
    THEN ErrorResponse(400, "InvalidRequest", <<"Request body must be valid JSON">>)
    ELSE NoResponse

\* a handler that goes on with an empty mapping when the body does not parse
RejectionNoParseCheck(r) ==
    IF r.agent = ""
    THEN ErrorResponse(400, "MissingHeader", <<"X-Agent-ID header is required">>)
    ELSE IF ReadAll(r.body).err
    THEN ErrorResponse(400, "InvalidRequest", <<"Failed to read request body">>)
    ELSE NoResponse

\* a handler that looks the adapter up before it evaluates the policy
RejectionAdapterFirst(r) ==
    IF r.agent = ""
    THEN ErrorResponse(400, "MissingHeader", <<"X-Agent-ID header is required">>)
    ELSE IF ReadAll(r.body).err
    THEN ErrorResponse(400, "InvalidRequest", <<"Failed to read request body">>)
    ELSE IF JsonUnmarshal(ReadAll(r.body).data).err
    THEN ErrorResponse(400, "InvalidRequest", <<"Request body must be valid JSON">>)
    ELSE IF r.tool \notin DOMAIN adapters
    THEN ErrorResponse(404, "AdapterNotFound", <<"No adapter configured for tool: ", r.tool>>)
    ELSE NoResponse

\* the checks handleToolRequest makes before it calls Evaluate, in its
\* order: the X-Agent-ID header, the read of the body, the parse of the
\* body; the error it answers, or NoResponse when the call passes them
Rejection(r) ==
    IF r.agent = ""
    THEN ErrorResponse(400, "MissingHeader", <<"X-Agent-ID header is required">>)
    ELSE IF ReadAll(r.body).err
    THEN ErrorResponse(400, "InvalidRequest", <<"Failed to read request body">>)
    ELSE IF JsonUnmarshal(ReadAll(r.body).data).err
    THEN ErrorResponse(400, "InvalidRequest", <<"Request body must be valid JSON">>)
    ELSE NoResponse

\* the handler up to the call of Evaluate: it answers the error of the
\* first check that fails and returns, or goes on with the parsed body
Receive(q, r) ==
    /\ rpc[q] = "idle"
    /\ Arrives(q, r)
    /\ req' = [req EXCEPT ![q] = r]
    /\ IF Rejection(r) # NoResponse
       THEN /\ Done(q, Rejection(r))
            /\ UNCHANGED params
       ELSE /\ params' = [params EXCEPT ![q] = JsonUnmarshal(ReadAll(r.body).data).params]
            /\ rpc' = [rpc EXCEPT ![q] = "evaluate"]
            /\ UNCHANGED <<resp, snap, seen>>
    /\ UNCHANGED <<dirVars, storeVars, loadVars, it, visited, decision, auditLog, logFile, posts,
                   lastPub, view>>

\* Evaluate: m.mu.RLock() and the start of the range over m.policies
EvalRLock(q) ==
    /\ rpc[q] = "evaluate"
    /\ mu.writer = NoOne
    /\ mu' = [mu EXCEPT !.readers = @ \cup {q}]
    /\ it' = [it EXCEPT ![q] = policies]
    /\ rpc' = [rpc EXCEPT ![q] = "range"]
    /\ snap' = [snap EXCEPT ![q] = lastPub]
    /\ UNCHANGED <<dirVars, maps, policies, adapters, healthResp, loadVars, req, params, visited,
                   decision, auditLog, logFile, posts, resp, lastPub, seen, view>>

\* Evaluate returns d (and the deferred m.mu.RUnlock())
EvalReturn(q, d) ==
    /\ decision' = [decision EXCEPT ![q] = d]
    /\ mu' = [mu EXCEPT !.readers = @ \ {q}]
    /\ it' = [it EXCEPT ![q] = 0]
    /\ maps' = Collect(maps, {policies} \cup {newPolicies[r] : r \in Reloaders}
                                \cup {it[x] : x \in Requests \ {q}})
    /\ rpc' = [rpc EXCEPT ![q] = "log"]

\* one turn of the range over the map: the policy of file f, which the
\* range reaches in an order of Go's choosing
EvalVisit(q, f) ==
    /\ rpc[q] = "range"
    /\ f \in DOMAIN maps[it[q]] \ visited[q]
    /\ LET policy == maps[it[q]][f]
       IN /\ seen' = [seen EXCEPT ![q] = MapSet(@, f, policy)]
          /\ IF MatchingPermissions(policy, req[q].agent, req[q].tool, req[q].action) = {}
             THEN /\ visited' = [visited EXCEPT ![q] = @ \cup {f}]
                  /\ UNCHANGED <<decision, mu, it, maps, rpc>>
             ELSE LET perm == FirstMatch(policy, req[q].agent, req[q].tool, req[q].action)
                  IN /\ \E order \in Orders(DOMAIN perm.Conditions) :
                           EvalReturn(q, PermissionDecision(policy, perm, order, params[q]))
                     /\ UNCHANGED visited
    /\ UNCHANGED <<dirVars, policies, adapters, healthResp, loadVars, req, params, auditLog, logFile, posts,
                   resp, lastPub, snap, view>>

\* the range is over: no matching policy found
EvalNoMatch(q) ==
    /\ rpc[q] = "range"
    /\ visited[q] = DOMAIN maps[it[q]]
    /\ EvalReturn(q, NoPolicyDecision(req[q].agent, req[q].tool, req[q].action))
    /\ UNCHANGED <<dirVars, policies, adapters, healthResp, loadVars, req, params, visited, auditLog, logFile,
                   posts, resp, histVars>>

\* a record that carries the reason of denials only
AuditRecordReasonOnDeny(q) ==
    [trace_id |-> q,
     agent_id |-> req[q].agent,
     tool |-> req[q].tool,
     action |-> req[q].action,
     decision_allow |-> decision[q].Allow,
     reason |-> IF decision[q].Allow THEN <<>> ELSE decision[q].Reason,
     policy_version |-> decision[q].Version,
     params_hash |-> HashParams(params[q]),
     parent_agent |-> req[q].parent]

\* a record that carries the policy version of allows only
AuditRecordVersionOnAllow(q) ==
    [trace_id |-> q,
     agent_id |-> req[q].agent,
     tool |-> req[q].tool,
     action |-> req[q].action,
     decision_allow |-> decision[q].Allow,
     reason |-> decision[q].Reason,
     policy_version |-> IF decision[q].Allow THEN decision[q].Version ELSE 0,
     params_hash |-> HashParams(params[q]),
     parent_agent |-> req[q].parent]

\* the record telemetry.LogDecision emits (the times left out)
AuditRecord(q) ==
    [trace_id |-> q,
     agent_id |-> req[q].agent,
     tool |-> req[q].tool,
     action |-> req[q].action,
     decision_allow |-> decision[q].Allow,
     reason |-> decision[q].Reason,
     policy_version |-> decision[q].Version,
     params_hash |-> HashParams(params[q]),
     parent_agent |-> req[q].parent]

\* data, _ := json.Marshal(log): what LogDecision writes for the record
RecordData(q) == [text |-> "json", record |-> AuditRecord(q)]

\* the line end LogDecision writes after the record
Newline == [text |-> "\n"]

\* a handler that logs the denials only
LogDecisionDenialsOnly(q) ==
    /\ rpc[q] = "log"
    /\ auditLog' = IF decision[q].Allow THEN auditLog ELSE Append(auditLog, AuditRecord(q))
    /\ logFile' = IF decision[q].Allow THEN logFile ELSE Append(logFile, RecordData(q))
    /\ rpc' = [rpc EXCEPT ![q] = IF decision[q].Allow THEN "respond" ELSE "newline"]
    /\ UNCHANGED <<dirVars, storeVars, loadVars, req, params, it, visited, decision, posts,
                   resp, histVars>>

\* telemetry.AddSpanAttributes and telemetry.LogDecision up to its first
\* write to the file: fmt.Println(string(data)); logger.file.Write(data)
LogDecision(q) ==
    /\ rpc[q] = "log"
    /\ auditLog' = Append(auditLog, AuditRecord(q))
    /\ logFile' = Append(logFile, RecordData(q))
    /\ rpc' = [rpc EXCEPT ![q] = "newline"]
    /\ UNCHANGED <<dirVars, storeVars, loadVars, req, params, it, visited, decision, posts,
                   resp, histVars>>

\* the rest of telemetry.LogDecision: logger.file.WriteString("\n")
LogNewline(q) ==
    /\ rpc[q] = "newline"
    /\ logFile' = Append(logFile, Newline)
    /\ rpc' = [rpc EXCEPT ![q] = "respond"]
    /\ UNCHANGED <<dirVars, storeVars, loadVars, req, params, it, visited, decision,
                   auditLog, posts, resp, histVars>>

\* if !decision.Allow: 403 PolicyViolation
RespondDeny(q) ==
    /\ rpc[q] = "respond"
    /\ ~decision[q].Allow
    /\ Done(q, ErrorResponse(403, "PolicyViolation", decision[q].Reason))
    /\ UNCHANGED <<dirVars, storeVars, loadVars, req, params, it, visited, decision,
                   auditLog, logFile, posts, lastPub, view>>

\* a handler that answers 404 for a tool without adapter whatever the
\* decision
RespondNoAdapterAnyDecision(q) ==
    /\ rpc[q] = "respond"
    /\ req[q].tool \notin DOMAIN adapters
    /\ Done(q, ErrorResponse(404, "AdapterNotFound",
                             <<"No adapter configured for tool: ", req[q].tool>>))
    /\ UNCHANGED <<dirVars, storeVars, loadVars, req, params, it, visited, decision,
                   auditLog, logFile, posts, lastPub, view>>

\* a handler that enters a default adapter for a tool it finds none for
RespondNoAdapterRegistering(q) ==
    /\ rpc[q] = "respond"
    /\ decision[q].Allow
    /\ req[q].tool \notin DOMAIN adapters
    /\ adapters' = MapSet(adapters, req[q].tool, <<"http://localhost:8080">>)
    /\ Done(q, ErrorResponse(404, "AdapterNotFound",
                             <<"No adapter configured for tool: ", req[q].tool>>))
    /\ UNCHANGED <<dirVars, maps, policies, mu, healthResp, loadVars, req, params, it,
                   visited, decision, auditLog, logFile, posts, lastPub, view>>

\* adapterURL, ok := g.adapters[toolName]; if !ok: 404 AdapterNotFound
RespondNoAdapter(q) ==
    /\ rpc[q] = "respond"
    /\ decision[q].Allow
    /\ req[q].tool \notin DOMAIN adapters
    /\ Done(q, ErrorResponse(404, "AdapterNotFound",
                             <<"No adapter configured for tool: ", req[q].tool>>))
    /\ UNCHANGED <<dirVars, storeVars, loadVars, req, params, it, visited, decision,
                   auditLog, logFile, posts, lastPub, view>>

\* a handler that forwards the parsed mapping serialized again
ForwardedBodyMarshalled(q) == JsonMarshal(params[q])

\* the body handleToolRequest hands to forward_to_adapter
ForwardedBody(q) == ReadAll(req[q].body).data

\* a handler that answers 502 AdapterError for every adapter status that
\* is not a success
AdapterReplySuccessOnly(outcome) ==
    CASE outcome.kind = "error" -> ErrorResponse(502, "AdapterError", <<outcome.body>>)
      [] outcome.kind = "unreadable" ->
             ErrorResponse(502, "AdapterError", <<"Failed to read adapter response">>)
      [] outcome.status >= 300 -> ErrorResponse(502, "AdapterError", <<outcome.body>>)
      [] OTHER -> Relayed(outcome.status, outcome.body)

\* what handleToolRequest writes once the adapter call is over
AdapterReply(outcome) ==
    CASE outcome.kind = "error" -> ErrorResponse(502, "AdapterError", <<outcome.body>>)
      [] outcome.kind = "unreadable" ->
             ErrorResponse(502, "AdapterError", <<"Failed to read adapter response">>)
      [] OTHER -> Relayed(outcome.status, outcome.body)

\* a handler that forwards without looking at the decision
ForwardWhateverDecision(q, outcome) ==
    /\ rpc[q] = "respond"
    /\ req[q].tool \in DOMAIN adapters
    /\ posts' = [posts EXCEPT ![q] =
                    Append(@, [method |-> "POST",
                               url |-> TargetURL(adapters[req[q].tool], req[q].action),
                               body |-> ForwardedBody(q),
                               reply |-> outcome])]
    /\ Done(q, AdapterReply(outcome))
    /\ UNCHANGED <<dirVars, storeVars, loadVars, req, params, it, visited, decision,
                   auditLog, logFile, lastPub, view>>

\* forward_to_adapter and the relay of what comes back
Forward(q, outcome) ==
    /\ rpc[q] = "respond"
    /\ decision[q].Allow
    /\ req[q].tool \in DOMAIN adapters
    /\ posts' = [posts EXCEPT ![q] =
                    Append(@, [method |-> "POST",
                               url |-> TargetURL(adapters[req[q].tool], req[q].action),
                               body |-> ForwardedBody(q),
                               reply |-> outcome])]
    /\ Done(q, AdapterReply(outcome))
    /\ UNCHANGED <<dirVars, storeVars, loadVars, req, params, it, visited, decision,
                   auditLog, logFile, lastPub, view>>

\* ------------------------------------------------------------------------
\* The system
\* ------------------------------------------------------------------------

\* the operator
Operator ==
    \/ \E n \in Edited, text \in FileTexts : WriteFile(n, text)
    \/ \E n \in Edited : RemoveFile(n)
    \/ \E b \in BOOLEAN : SetReadable(b)

\* the watcher loop and the reload endpoint
Reloading ==
    \/ WatchEvent
    \/ HandleReload
    \/ \E r \in Reloaders : LoadReadDir(r)
    \/ \E r \in Reloaders : LoadLock(r)
    \/ \E r \in Reloaders : LoadEntry(r)
    \/ \E r \in Reloaders : LoadPublish(r)

\* the goroutine of tool call q, the call being one of calls
Serve(q, calls) ==
    \/ \E r \in calls : Receive(q, r)
    \/ EvalRLock(q)
    \/ \E f \in NameSet : EvalVisit(q, f)
    \/ EvalNoMatch(q)
    \/ LogDecision(q)
    \/ LogNewline(q)
    \/ RespondDeny(q)
    \/ RespondNoAdapter(q)
    \/ \E outcome \in AdapterOutcomes : Forward(q, outcome)

\* the calls whose decision depends on which policy files are loaded
ReloadCalls ==
    { ToolRequest("finance-agent", "planner", "payments", "create", BodyPayBig),
      ToolRequest("hr-agent", "", "archive", "read", BodyHrRead) }

\* one tool call served while the operator edits the directory and the
\* policies are reloaded
Next == Operator \/ Reloading \/ Serve("q1", ReloadCalls)

Spec == Init /\ [][Next]_vars

\* the scheduling of the goroutines: a goroutine that can take a step
\* takes it; a goroutine waiting in m.mu.Lock() or m.mu.RLock() gets the
\* lock (sync.RWMutex holds new readers back while a writer waits, and
\* admits the waiting readers when the writer unlocks)
Scheduling ==
    /\ \A r \in Reloaders :
          /\ WF_vars(LoadReadDir(r))
          /\ SF_vars(LoadLock(r))
          /\ WF_vars(LoadEntry(r))
          /\ WF_vars(LoadPublish(r))
    /\ \A q \in Requests :
          /\ SF_vars(EvalRLock(q))
          /\ WF_vars(\E f \in NameSet : EvalVisit(q, f))
          /\ WF_vars(EvalNoMatch(q))

\* one tool call, the watcher's reload after the operator has added the
\* version-2 policy as b.yaml, and manual reloads, interleaved
NextLive == WriteFile("b.yaml", "yaml-v2") \/ Reloading \/ Serve("q1", ReloadCalls)

\* that system with its goroutines scheduled
SpecLive == Init /\ [][NextLive]_vars /\ Scheduling

\* the directories a gateway can be started on
StartDirs ==
    {d \in [NameSet -> FileTexts \cup {Absent}] :
        /\ d["notes.txt"] = InitDir["notes.txt"]
        /\ d["a.yaml"] # Absent}

InitEval == \E d \in StartDirs, am \in AdapterMaps : InitOn(d, am)

\* two tool calls with the same arguments served against one aggregate
NextEval == \E q \in Requests : Serve(q, ToolRequests)

SpecEval == InitEval /\ [][NextEval]_vars

\* the calls of ToolRequests, each without and with an X-Parent-Agent header
ParentCalls ==
    {[r EXCEPT !.parent = p] : r \in ToolRequests, p \in {"", "planner"}}

\* two tool calls that differ at most in X-Parent-Agent, served against
\* one aggregate
NextParent == \E q \in Requests : Serve(q, ParentCalls)

SpecParent == InitEval /\ [][NextParent]_vars

\* the directories of corner cases: a.yaml holds any text, b.yaml is absent
\* or holds the version-2 policy
PolicyDirs ==
    {d \in [NameSet -> AnyText \cup {Absent}] :
        /\ d["notes.txt"] = InitDir["notes.txt"]
        /\ d["a.yaml"] # Absent
        /\ d["b.yaml"] \in {Absent, "yaml-v2"}}

InitPolicy == \E d \in PolicyDirs : InitOn(d, adapterMap)

\* the calls of corner cases: payments by finance-agent and reads by
\* hr-agent with every body, calls no permission is written for, and
\* refunds with a body that is no JSON mapping
PolicyCalls ==
    {ToolRequest("finance-agent", "", "payments", "create", b) :
        b \in {BodyPayCreate, BodyPayBig} \cup {j.body : j \in CornerBodies}}
    \cup {ToolRequest("hr-agent", "", "files", "read", b) :
              b \in {BodyHrRead} \cup {j.body : j \in CornerBodies}}
    \cup { ToolRequest("intern-agent", "", "payments", "create", BodyPayCreate),
           ToolRequest("finance-agent", "", "unknown-tool", "create", BodyPayCreate),
           ToolRequest("finance-agent", "", "payments", "delete", BodyPayCreate),
           ToolRequest("finance-agent", "", "payments", "Create", BodyPayCreate),
           ToolRequest("finance-agent", "", "payments", "refund", BodyPayCreate),
           ToolRequest("finance-agent", "", "payments", "cancel", BodyPayCreate),
           ToolRequest("hr-agent", "", "archive", "read", BodyHrRead) }
    \cup {ToolRequest("finance-agent", "", "payments", "refund", b) : b \in NonMappingBodies}

\* POST /policies/reload and the load it runs
ManualReload ==
    \/ HandleReload
    \/ LoadReadDir("manual")
    \/ LoadLock("manual")
    \/ LoadEntry("manual")
    \/ LoadPublish("manual")

\* one tool call served by a gateway started on a directory of corner
\* cases, with manual reloads of that directory
NextPolicy == ManualReload \/ Serve("q1", PolicyCalls)

SpecPolicy == InitPolicy /\ [][NextPolicy]_vars

\* one tool call of any outcome, health checks and manual reloads, on a
\* gateway started on any directory with any adapter registry
NextFrame == HandleHealth \/ ManualReload \/ Serve("q1", ToolRequests)

SpecFrame == InitEval /\ [][NextFrame]_vars

\* a gateway started on any directory
InitReload == \E d \in StartDirs : InitOn(d, adapterMap)

\* the watcher, with its error channel and its closing
Watching == WatcherFault \/ WatchError \/ CloseWatcher \/ WatchStop

\* the policy store alone: the operator edits the directory, the watcher
\* and the endpoint reload, the watcher can fail and be closed
NextReload == Operator \/ (\E n \in Edited : RenameAway(n)) \/ Reloading \/ Watching

SpecReload == InitReload /\ [][NextReload]_vars

\* ------------------------------------------------------------------------
\* Properties
\* ------------------------------------------------------------------------

\* C1: under every interleaving of Evaluate with Reload, one Evaluate call
\* works on one published aggregate. While its range runs, the map it ranges
\* is, whole, the aggregate that was published when it took the read lock,
\* and every file it has read is that aggregate's; the Decision it returns
\* is one Evaluate computes from that aggregate alone.
EvaluateReadsOneAggregate ==
    \A q \in Requests :
        /\ rpc[q] \in {"range", "log", "newline", "respond"} =>
              \A f \in DOMAIN seen[q] :
                  f \in DOMAIN snap[q].agg /\ seen[q][f] = snap[q].agg[f]
        /\ rpc[q] = "range" => maps[it[q]] = snap[q].agg
        /\ rpc[q] \in {"log", "newline", "respond"} =>
              decision[q] \in Evaluate(snap[q].agg, req[q].agent, req[q].tool,
                                       req[q].action, params[q])

\* an Evaluate call is in its range while a reload that has listed a
\* directory giving another aggregate waits for the lock
EvaluateDuringReload ==
    \E q \in Requests, r \in Reloaders :
        /\ rpc[q] = "range"
        /\ lpc[r] = "lock"
        /\ ValidPolicies(view[r].dir) # snap[q].agg

\* C2: a tool call whose decision is a denial is answered 403
\* PolicyViolation with the decision's reason, and no request is sent to an
\* adapter for it, whatever the adapter registry holds.
DenyAnswers403WithoutForward ==
    \A q \in Requests :
        (rpc[q] \in {"respond", "done"} /\ decision[q] # NoDecision /\ ~decision[q].Allow) =>
            /\ posts[q] = <<>>
            /\ rpc[q] = "done" =>
                  resp[q] = ErrorResponse(403, "PolicyViolation", decision[q].Reason)

\* a call for a tool that has an adapter was denied by a condition of a
\* loaded policy and answered
DeniedWithAdapter ==
    \E q \in Requests :
        /\ rpc[q] = "done"
        /\ resp[q].status = 403
        /\ req[q].tool \in DOMAIN adapters
        /\ decision[q].Version >= 1

\* C3 (as stated): every answered tool call whose decision is allow has had
\* exactly one POST forwarded, to <base>/<action>, with the body received.
AllowForwardsOnce ==
    \A q \in Requests :
        (rpc[q] = "done" /\ decision[q].Allow) =>
            /\ Len(posts[q]) = 1
            /\ posts[q][1].body = req[q].body

\* C3: every answered tool call whose decision is allow and whose tool has
\* an adapter in the registry has had exactly one POST forwarded, to
\* <base>/<action> (one slash between them), its body the bytes received;
\* an allowed call whose tool has no adapter is answered 404 and nothing is
\* forwarded for it.
AllowForwardsOnceToAdapter ==
    \A q \in Requests :
        /\ Len(posts[q]) <= 1
        /\ (rpc[q] = "done" /\ decision[q].Allow /\ req[q].tool \in DOMAIN adapters) =>
              /\ Len(posts[q]) = 1
              /\ posts[q][1].method = "POST"
              /\ posts[q][1].url = TrimSlash(adapters[req[q].tool]) \o <<"/", req[q].action>>
              /\ \A i \in 1..(Len(posts[q][1].url) - 1) :
                     ~(posts[q][1].url[i] = "/" /\ posts[q][1].url[i + 1] = "/")
              /\ posts[q][1].body = req[q].body
        /\ (rpc[q] = "done" /\ decision[q].Allow /\ req[q].tool \notin DOMAIN adapters) =>
              /\ posts[q] = <<>>
              /\ resp[q].status = 404

\* an allowed call was forwarded with a body that is not the canonical
\* serialization of its mapping
ForwardedVerbatim ==
    \E q \in Requests :
        /\ rpc[q] = "done"
        /\ decision[q].Allow
        /\ Len(posts[q]) = 1
        /\ posts[q][1].body # JsonMarshal(params[q])

MissingHeaderStopsTheCall ==
    \A q \in Requests :
        (rpc[q] # "idle" /\ req[q].agent = "") =>
            /\ rpc[q] = "done"
            /\ resp[q] = ErrorResponse(400, "MissingHeader", <<"X-Agent-ID header is required">>)
            /\ \A i \in 1..Len(auditLog) : auditLog[i].trace_id # q
            /\ decision[q] = NoDecision
            /\ it[q] = 0
            /\ q \notin mu.readers
            /\ posts[q] = <<>>

\* a call with no X-Agent-ID and a body that parses was answered
MissingHeaderAnswered ==
    \E q \in Requests :
        /\ rpc[q] = "done"
        /\ req[q].agent = ""
        /\ ~JsonUnmarshal(req[q].body).err
        /\ resp[q].status = 400

\* C6: a tool call with a non-empty X-Agent-ID whose body is read but does
\* not parse as JSON is answered 400 InvalidRequest at once: no audit record
\* is emitted for it, Evaluate is not called and no adapter is contacted.
InvalidBodyStopsTheCall ==
    \A q \in Requests :
        (/\ rpc[q] # "idle"
         /\ req[q].agent # ""
         /\ ~ReadAll(req[q].body).err
         /\ JsonUnmarshal(ReadAll(req[q].body).data).err) =>
            /\ rpc[q] = "done"
            /\ resp[q] = ErrorResponse(400, "InvalidRequest",
                                       <<"Request body must be valid JSON">>)
            /\ \A i \in 1..Len(auditLog) : auditLog[i].trace_id # q
            /\ decision[q] = NoDecision
            /\ it[q] = 0
            /\ q \notin mu.readers
            /\ posts[q] = <<>>

\* a call of an agent the policy knows, with a body that is no JSON, was
\* answered
InvalidBodyAnswered ==
    \E q \in Requests :
        /\ rpc[q] = "done"
        /\ req[q].agent = "finance-agent"
        /\ req[q].body = BodyInvalid
        /\ resp[q].error = "InvalidRequest"

\* C7: the policy check comes before the adapter lookup: an answered
\* well-formed call for a tool with no adapter whose decision is not allow is
\* answered 403 PolicyViolation with the decision's reason (Evaluate's, the
\* no-match denial when no loaded policy permits the call), and a 404
\* AdapterNotFound is only ever the answer to a call the policy allowed.
PolicyCheckPrecedesAdapterCheck ==
    \A q \in Requests :
        /\ (/\ rpc[q] = "done"
            /\ req[q].agent # ""
            /\ ~ReadAll(req[q].body).err
            /\ ~JsonUnmarshal(ReadAll(req[q].body).data).err
            /\ req[q].tool \notin DOMAIN adapters
            /\ ~decision[q].Allow) =>
               /\ decision[q] # NoDecision
               /\ resp[q] = ErrorResponse(403, "PolicyViolation", decision[q].Reason)
        /\ (rpc[q] = "done" /\ resp[q].status = 404) => decision[q].Allow

\* a call for a tool with no adapter that no policy names was answered 403
\* with the no-match denial
UnknownToolDenied ==
    \E q \in Requests :
        /\ rpc[q] = "done"
        /\ req[q].tool = "unknown-tool"
        /\ req[q].tool \notin DOMAIN adapters
        /\ decision[q] = NoPolicyDecision(req[q].agent, req[q].tool, req[q].action)
        /\ resp[q].status = 403

\* C8 (as stated): two Evaluate calls with the same arguments against the
\* same aggregate return the same Decision.
EvaluateDeterministic ==
    \A q1 \in Requests, q2 \in Requests :
        (/\ rpc[q1] \in {"log", "newline", "respond"}
         /\ rpc[q2] \in {"log", "newline", "respond"}
         /\ req[q1] = req[q2]
         /\ params[q1] = params[q2]
         /\ snap[q1].agg = snap[q2].agg) =>
            decision[q1] = decision[q2]

\* C9: an Evaluate call that starts once a Reload has returned successfully
\* (and before a later one publishes) works on exactly the valid .yaml files
\* of the directory as that reload found it, the directory having stayed so
\* while the reload read it: the map it ranges is that set of policies and
\* its Decision is one Evaluate computes from them. (The same holds of the
\* load NewManager makes.)
EvaluateAfterReloadUsesDirectory ==
    \A q \in Requests :
        (rpc[q] \in {"range", "log", "newline", "respond"} /\ snap[q].stable) =>
            /\ snap[q].agg = ValidPolicies(snap[q].dir)
            /\ rpc[q] = "range" => maps[it[q]] = ValidPolicies(snap[q].dir)
            /\ rpc[q] # "range" =>
                  decision[q] \in Evaluate(ValidPolicies(snap[q].dir), req[q].agent,
                                           req[q].tool, req[q].action, params[q])

\* after a reload of a directory whose a.yaml was rewritten with a higher
\* max_amount, a payment above the old limit is allowed under version 2
ChangedConditionApplied ==
    \E q \in Requests, r \in Reloaders :
        /\ rpc[q] = "log"
        /\ result[r] = "ok"
        /\ snap[q].stable
        /\ snap[q].dir # InitDir
        /\ snap[q].dir["a.yaml"] = "yaml-v2"
        /\ req[q].body = BodyPayBig
        /\ decision[q] = Decision(TRUE, <<"Policy allows this action">>, 2)

\* C10: a Reload that cannot enumerate the directory returns an error and
\* leaves m.policies and the map it refers to as they are (so Evaluate
\* decides as before), and POST /policies/reload then answers 500
\* ReloadFailed; a Reload that gets to its end returns nil and POST
\* /policies/reload answers 200 {"status":"reloaded"}.
FailedReloadKeepsAggregate ==
    [][\A r \in Reloaders :
          /\ (lpc[r] = "readdir" /\ lpc'[r] # "readdir" /\ ~dirReadable) =>
                /\ lpc'[r] = "idle"
                /\ result'[r] = "error"
                /\ policies' = policies
                /\ maps'[policies'] = maps[policies]
                /\ lastPub' = lastPub
                /\ r = "manual" =>
                      (reloadResp'.status = 500 /\ reloadResp'.error = "ReloadFailed")
          /\ (lpc[r] = "readdir" /\ lpc'[r] # "readdir" /\ dirReadable) =>
                lpc'[r] = "lock"
          /\ (lpc[r] = "entries" /\ lpc'[r] = "idle") =>
                /\ result'[r] = "ok"
                /\ r = "manual" =>
                      (reloadResp'.status = 200
                       /\ reloadResp'.body = "{\"status\":\"reloaded\"}")]_vars

\* POST /policies/reload has answered 500 for a directory that could not be
\* read and the published aggregate is still the one loaded at the start
ReloadFailedAnswered ==
    /\ result["manual"] = "error"
    /\ reloadResp.status = 500
    /\ ~dirReadable
    /\ maps[policies] = ValidPolicies(InitDir)
    /\ maps[policies] # EmptyMap

\* C11: the published aggregate holds only policies that pass validation
\* (version at least 1, at least one agent, no agent with an empty id); a
\* load that has entered its loop over the entries never aborts, whatever
\* the files hold, and ends with Reload returning nil; and every .yaml file
\* that is valid in the directory a load read is in the aggregate it
\* published, with its policy, whatever the other files hold.
PublishedPoliciesAreValid ==
    /\ [](/\ \A f \in DOMAIN maps[policies] :
                /\ maps[policies][f].Version >= 1
                /\ Len(maps[policies][f].Agents) >= 1
                /\ \A i \in 1..Len(maps[policies][f].Agents) :
                       maps[policies][f].Agents[i].ID # ""
          /\ lastPub.stable =>
                \A n \in {"a.yaml", "b.yaml"} :
                    lastPub.dir[n] \in {"yaml-v1", "yaml-v2"} =>
                        /\ n \in DOMAIN maps[policies]
                        /\ maps[policies][n] = YamlUnmarshal(lastPub.dir[n]).pol)
    /\ [][\A r \in Reloaders :
             lpc[r] = "entries" =>
                 /\ lpc'[r] \in {"entries", "idle"}
                 /\ lpc'[r] = "idle" => result'[r] = "ok"]_vars

\* a reload of a directory whose a.yaml does not parse or validate and whose
\* b.yaml is valid has returned nil and published b.yaml alone
InvalidFileSkipped ==
    \E r \in Reloaders :
        /\ result[r] = "ok"
        /\ lastPub.stable
        /\ lastPub.dir["a.yaml"] \in {"yaml-v0", "not-yaml"}
        /\ lastPub.dir["b.yaml"] = "yaml-v2"
        /\ DOMAIN maps[policies] = {"b.yaml"}

\* C12 (as stated): when a Reload publishes after reading a directory in
\* which a file that was loaded has become unparseable or invalid while
\* another file still parses, the policy loaded before from that file is
\* still in the published aggregate.
ReloadKeepsPolicyOfBrokenFile ==
    [][\A r \in Reloaders : \A f \in {"a.yaml", "b.yaml"} :
          (/\ lpc[r] = "entries" /\ lpc'[r] = "idle"
           /\ f \in DOMAIN maps[policies]
           /\ view[r].stable
           /\ view[r].dir[f] \in {"yaml-v0", "not-yaml"}
           /\ \E g \in {"a.yaml", "b.yaml"} \ {f} : view[r].dir[g] \in {"yaml-v1", "yaml-v2"}) =>
              /\ f \in DOMAIN maps'[policies']
              /\ maps'[policies'][f] = maps[policies][f]]_vars

\* C12: a Reload replaces the aggregate wholesale. When it publishes, the
\* published map is the one it built from empty, so a file it did not add
\* is not in it; in particular, after reading a directory in which a file
\* that was loaded has become unparseable or invalid while another file
\* still parses, the policy loaded before from that file is no longer
\* published, and the files that parse and validate are.
ReloadDropsPolicyOfBrokenFile ==
    [][\A r \in Reloaders :
          (lpc[r] = "entries" /\ lpc'[r] = "idle") =>
              /\ maps'[policies'] = maps[newPolicies[r]]
              /\ \A f \in {"a.yaml", "b.yaml"} :
                    (/\ f \in DOMAIN maps[policies]
                     /\ view[r].stable
                     /\ view[r].dir[f] \in {"yaml-v0", "not-yaml"}
                     /\ \E g \in {"a.yaml", "b.yaml"} \ {f} :
                            view[r].dir[g] \in {"yaml-v1", "yaml-v2"}) =>
                        /\ f \notin DOMAIN maps'[policies']
                        /\ \A g \in {"a.yaml", "b.yaml"} \ {f} :
                               view[r].dir[g] \in {"yaml-v1", "yaml-v2"} =>
                                   /\ g \in DOMAIN maps'[policies']
                                   /\ maps'[policies'][g] = YamlUnmarshal(view[r].dir[g]).pol]_vars

\* a reload is about to publish: a.yaml is in the published aggregate, it
\* has become unparseable or invalid, b.yaml still parses, and the map the
\* reload has built holds b.yaml alone
BrokenFileAboutToBeDropped ==
    \E r \in Reloaders :
        /\ lpc[r] = "entries"
        /\ next[r] > Len(entries[r])
        /\ "a.yaml" \in DOMAIN maps[policies]
        /\ view[r].stable
        /\ view[r].dir["a.yaml"] \in {"yaml-v0", "not-yaml"}
        /\ view[r].dir["b.yaml"] \in {"yaml-v1", "yaml-v2"}
        /\ DOMAIN maps[newPolicies[r]] = {"b.yaml"}

\* C13: when every .yaml file of the directory fails to parse or to
\* validate, the Reload that reads it returns nil and publishes an empty
\* map, whatever was published before; an Evaluate call that starts after
\* that ranges over the empty map and denies with the reason 'No policy
\* found for agent=..., tool=..., action=...' and version 0.
AllFilesFailingDeniesAll ==
    /\ [](\A q \in Requests :
             (/\ rpc[q] \in {"range", "log", "newline", "respond"}
              /\ snap[q].stable
              /\ \E n \in {"a.yaml", "b.yaml"} : snap[q].dir[n] # Absent
              /\ \A n \in {"a.yaml", "b.yaml"} :
                     snap[q].dir[n] \in {Absent, "yaml-v0", "not-yaml"}) =>
                 /\ rpc[q] = "range" => maps[it[q]] = EmptyMap
                 /\ rpc[q] # "range" =>
                       decision[q] = Decision(FALSE,
                                              <<"No policy found for agent=", req[q].agent,
                                                ", tool=", req[q].tool,
                                                ", action=", req[q].action>>, 0))
    /\ [][\A r \in Reloaders :
             (/\ lpc[r] = "entries" /\ lpc'[r] = "idle"
              /\ view[r].stable
              /\ \A n \in {"a.yaml", "b.yaml"} :
                     view[r].dir[n] \in {Absent, "yaml-v0", "not-yaml"}) =>
                 /\ result'[r] = "ok"
                 /\ maps'[policies'] = EmptyMap]_vars

\* the only policy file was overwritten with text that does not parse, a
\* reload returned nil, and the payment the first policy allowed is denied
\* for want of a policy
DeniedAfterAllFilesFailed ==
    \E q \in Requests, r \in Reloaders :
        /\ rpc[q] = "log"
        /\ result[r] = "ok"
        /\ snap[q].stable
        /\ snap[q].dir["a.yaml"] \in {"yaml-v0", "not-yaml"}
        /\ snap[q].dir["b.yaml"] = Absent
        /\ req[q].agent = "finance-agent"
        /\ decision[q].Allow = FALSE
        /\ decision[q].Version = 0

\* C14 (as stated): a Reload of a directory that is as the last load found
\* it changes no Decision: for every agent, tool, action and params, what
\* Evaluate returns once the Reload has published is what it returned
\* before.
ReloadOfUnchangedDirectoryIdempotent ==
    [][\A r \in Reloaders :
          (/\ lpc[r] = "entries" /\ lpc'[r] = "idle"
           /\ lastPub.stable /\ view[r].stable
           /\ view[r].dir = lastPub.dir) =>
              \A c \in ToolRequests :
                  ~JsonUnmarshal(c.body).err =>
                      \A before \in Evaluate(maps[policies], c.agent, c.tool, c.action,
                                             JsonUnmarshal(c.body).params) :
                          \A after \in Evaluate(maps'[policies'], c.agent, c.tool, c.action,
                                                JsonUnmarshal(c.body).params) :
                              before = after]_vars

\* C15 (as stated): when the watcher loop receives a remove or rename
\* event of the policy directory, it starts a reload.
RemoveOrRenameStartsReload ==
    [][(/\ lpc["watcher"] = "idle"
        /\ events # <<>>
        /\ Head(events) \in {"REMOVE", "RENAME"}
        /\ events' = Tail(events)
        /\ closed' = closed) =>
           lpc'["watcher"] = "readdir"]_vars

\* C16: while the watcher loop runs, each write or create event it receives
\* makes it call Reload, and it calls Reload for nothing else: the loop
\* enters load_policies exactly in the step that takes a write or create
\* event off g.watcher.Events, and an event leaves the channel only by
\* being received by the loop (or by the watcher being closed).
WriteOrCreateReloadsOnce ==
    [][/\ (/\ lpc["watcher"] = "idle"
           /\ events # <<>>
           /\ Head(events) \in {"WRITE", "CREATE"}
           /\ events' = Tail(events)
           /\ closed' = closed) =>
              lpc'["watcher"] = "readdir"
       /\ (lpc["watcher"] # "readdir" /\ lpc'["watcher"] = "readdir") =>
              /\ lpc["watcher"] = "idle"
              /\ events # <<>>
              /\ Head(events) \in {"WRITE", "CREATE"}
              /\ events' = Tail(events)
       /\ (events' # events /\ closed' = closed) =>
              \/ \E op \in {"WRITE", "CREATE", "REMOVE", "RENAME"} : events' = Append(events, op)
              \/ /\ lpc["watcher"] = "idle"
                 /\ events # <<>>
                 /\ events' = Tail(events)]_vars

\* b.yaml was created, the watcher loop has received the event and is in
\* the Reload it called for it
ReloadForCreateEvent ==
    /\ lpc["watcher"] = "readdir"
    /\ result["watcher"] = "none"
    /\ events = <<>>
    /\ dirOps = 1
    /\ lastPub.dir["b.yaml"] = Absent
    /\ dir["b.yaml"] \in FileTexts
    /\ ~closed

\* C17: the watcher loop ends only by finding a watcher channel closed.
\* Whatever the Reload it called returns (an error included) it is back at
\* its select; a file that cannot be read, parsed or validated does not
\* end the load it is part of; an error value received from
\* g.watcher.Errors leaves the loop at its select.
WatcherLoopEndsOnlyOnClose ==
    /\ [](lpc["watcher"] = "stopped" => closed)
    /\ [][/\ (lpc["watcher"] # "stopped" /\ lpc'["watcher"] = "stopped") =>
                 (closed /\ lpc["watcher"] = "idle")
          /\ (lpc["watcher"] = "readdir" /\ lpc'["watcher"] # "readdir") =>
                 \/ lpc'["watcher"] = "lock"
                 \/ lpc'["watcher"] = "idle" /\ result'["watcher"] = "error"
          /\ lpc["watcher"] = "entries" => lpc'["watcher"] \in {"entries", "idle"}
          /\ (watchErrors' < watchErrors /\ closed' = closed) =>
                 (lpc["watcher"] = "idle" /\ lpc'["watcher"] = "idle")]_vars

\* the Reload the watcher loop called for a write returned an error, and the
\* loop is at its select again, the watcher still open
WatcherIdleAfterReloadError ==
    /\ lpc["watcher"] = "idle"
    /\ result["watcher"] = "error"
    /\ dirOps = 1
    /\ ~dirReadable
    /\ ~closed

\* C18 (as stated): reloads are serialized, directory enumeration included:
\* while one reload is in progress, holding the lock with the aggregate it
\* builds not yet published, a second reload that has been called does not
\* enumerate the directory.
ReloadsSerialized ==
    [][\A r1 \in Reloaders : \A r2 \in Reloaders \ {r1} :
          (/\ lpc[r1] = "entries"
           /\ lpc[r2] = "readdir") =>
              lpc'[r2] = "readdir"]_vars

\* C19 (as stated): the writer lock is held only across the swap of the
\* aggregate reference: no Evaluate call waits for the lock while the
\* reload that holds it still has policy files to read and parse.
WriterLockOnlyAcrossSwap ==
    \A q \in Requests, r \in Reloaders :
        ~(/\ rpc[q] = "evaluate"
          /\ mu.writer = r
          /\ lpc[r] = "entries"
          /\ next[r] <= Len(entries[r]))

\* C20 (as stated): the content of the audit log file is a sequence of
\* complete records each followed by its own newline: what is written next
\* after a record is the newline that ends it.
AuditRecordsOnePerLine ==
    \A i \in 1..Len(logFile) :
        (logFile[i].text = "json" /\ i < Len(logFile)) => logFile[i + 1] = Newline

\* C21: the first permission, in declared agent order and then permission
\* order, of the policy Evaluate stops at that matches the agent, the tool
\* and the action decides: the Decision carries that policy's version; if
\* one of the conditions of that permission fails the Decision is a deny
\* with the reason of a failing condition of that permission, whatever the
\* permissions after it would give; if none fails it is an allow.
FirstMatchingPermissionDecides ==
    \A q \in Requests :
        rpc[q] \in {"log", "newline", "respond"} =>
            \A f \in DOMAIN seen[q] :
                LET policy == seen[q][f]
                    match(i, j) ==
                        /\ policy.Agents[i].ID = req[q].agent
                        /\ policy.Agents[i].Allow[j].Tool = req[q].tool
                        /\ \E k \in 1..Len(policy.Agents[i].Allow[j].Actions) :
                               policy.Agents[i].Allow[j].Actions[k] = req[q].action
                IN \A i \in 1..Len(policy.Agents) :
                       \A j \in 1..Len(policy.Agents[i].Allow) :
                           (/\ match(i, j)
                            /\ \A i2 \in 1..Len(policy.Agents) :
                                  \A j2 \in 1..Len(policy.Agents[i2].Allow) :
                                      match(i2, j2) => (i < i2 \/ (i = i2 /\ j <= j2))) =>
                               LET perm == policy.Agents[i].Allow[j]
                                   failing == {c \in DOMAIN perm.Conditions :
                                                  ConditionReason(c, perm.Conditions[c],
                                                                  params[q]) # <<>>}
                               IN /\ decision[q].Version = policy.Version
                                  /\ decision[q].Allow = (failing = {})
                                  /\ failing # {} =>
                                        \E c \in failing :
                                            decision[q].Reason =
                                                ConditionReason(c, perm.Conditions[c], params[q])
                                  /\ failing = {} =>
                                        decision[q].Reason = <<"Policy allows this action">>

\* a payment of 1000 under a policy whose first permission for payments
\* create has max_amount 100 and whose later ones have no condition: denied
\* for the amount
DeniedByFirstPermission ==
    \E q \in Requests :
        /\ rpc[q] = "log"
        /\ DOMAIN seen[q] = {"a.yaml"}
        /\ seen[q]["a.yaml"] = PolicyOrder
        /\ req[q].action = "create"
        /\ decision[q] = Decision(FALSE, <<"Amount ", "1000.00", " exceeds max_amount=",
                                           "100.00">>, 5)

\* C22: when no policy of the aggregate Evaluate ranges has a permission
\* whose agent id, tool and action are those of the call, the Decision is
\* allow=false, reason 'No policy found for agent=<a>, tool=<t>,
\* action=<x>', version 0.
NoMatchDenies ==
    \A q \in Requests :
        (/\ rpc[q] \in {"log", "newline", "respond"}
         /\ \A f \in DOMAIN snap[q].agg :
                \A i \in 1..Len(snap[q].agg[f].Agents) :
                    \A j \in 1..Len(snap[q].agg[f].Agents[i].Allow) :
                        ~(/\ snap[q].agg[f].Agents[i].ID = req[q].agent
                          /\ snap[q].agg[f].Agents[i].Allow[j].Tool = req[q].tool
                          /\ \E k \in 1..Len(snap[q].agg[f].Agents[i].Allow[j].Actions) :
                                 snap[q].agg[f].Agents[i].Allow[j].Actions[k] = req[q].action)) =>
            decision[q] = [Allow |-> FALSE,
                           Reason |-> <<"No policy found for agent=", req[q].agent,
                                        ", tool=", req[q].tool,
                                        ", action=", req[q].action>>,
                           Version |-> 0]

\* finance-agent asks for payments delete under the version-1 policy, which
\* lists create and refund: denied for want of a policy
UnlistedActionDenied ==
    \E q \in Requests :
        /\ rpc[q] = "log"
        /\ snap[q].agg = [f \in {"a.yaml"} |-> PolicyV1]
        /\ req[q].agent = "finance-agent"
        /\ req[q].tool = "payments"
        /\ req[q].action = "delete"
        /\ ~decision[q].Allow
        /\ decision[q].Version = 0

\* C23: when a permission decided (an allow or a condition-failure deny),
\* the version of the Decision is the version of the policy that holds that
\* permission, as Evaluate read it and as it was published when Evaluate
\* took its lock; the audit record of the call carries that version as
\* policy_version and the allow of the Decision as decision_allow, whatever
\* a reload publishes before the call is over.
VersionIsThatOfMatchedPolicy ==
    \A q \in Requests :
        /\ rpc[q] \in {"log", "newline", "respond"} =>
              \A f \in DOMAIN seen[q] :
                  (\E i \in 1..Len(seen[q][f].Agents) :
                      \E j \in 1..Len(seen[q][f].Agents[i].Allow) :
                          /\ seen[q][f].Agents[i].ID = req[q].agent
                          /\ seen[q][f].Agents[i].Allow[j].Tool = req[q].tool
                          /\ \E k \in 1..Len(seen[q][f].Agents[i].Allow[j].Actions) :
                                 seen[q][f].Agents[i].Allow[j].Actions[k] = req[q].action) =>
                      /\ decision[q].Version = seen[q][f].Version
                      /\ f \in DOMAIN snap[q].agg
                      /\ decision[q].Version = snap[q].agg[f].Version
        /\ rpc[q] \in {"newline", "respond"} =>
              \E i \in 1..Len(auditLog) : auditLog[i].trace_id = q
        /\ \A i \in 1..Len(auditLog) :
              auditLog[i].trace_id = q =>
                  /\ auditLog[i].policy_version = decision[q].Version
                  /\ auditLog[i].decision_allow = decision[q].Allow

\* a payment of 7500 was denied under version 1 and its audit record says
\* version 1, while a reload has already published version 2 of a.yaml
AuditedUnderOldVersion ==
    \E q \in Requests :
        /\ rpc[q] = "respond"
        /\ decision[q].Version = 1
        /\ ~decision[q].Allow
        /\ Len(auditLog) = 1
        /\ auditLog[1].policy_version = 1
        /\ auditLog[1].decision_allow = FALSE
        /\ "a.yaml" \in DOMAIN maps[policies]
        /\ maps[policies]["a.yaml"].Version = 2

\* C24: when the permission that decides has a max_amount condition given
\* as an integer or as a floating-point number and the request amount is a
\* number, an amount strictly greater than the limit is denied, and with
\* max_amount as the only condition the call is allowed exactly when the
\* amount is at most the limit (an amount equal to it is allowed), the
\* deny having the reason 'Amount <a> exceeds max_amount=<m>'; the type of
\* the limit makes no difference.
MaxAmountDeniesAboveLimitOnly ==
    \A q \in Requests :
        (/\ rpc[q] \in {"log", "newline", "respond"}
         /\ HasMatch(seen[q], req[q].agent, req[q].tool, req[q].action)) =>
            LET perm == Matched(seen[q], req[q].agent, req[q].tool, req[q].action).perm
            IN (/\ "max_amount" \in DOMAIN perm.Conditions
                /\ perm.Conditions["max_amount"].t \in {"int", "float64"}
                /\ "amount" \in DOMAIN params[q]
                /\ params[q]["amount"].t = "float64") =>
                   LET limit == perm.Conditions["max_amount"].n
                       amount == params[q]["amount"].n
                   IN /\ amount > limit => ~decision[q].Allow
                      /\ DOMAIN perm.Conditions = {"max_amount"} =>
                            /\ decision[q].Allow = (amount <= limit)
                            /\ amount > limit =>
                                  decision[q].Reason =
                                      <<"Amount ", ToString(amount) \o ".00",
                                        " exceeds max_amount=", ToString(limit) \o ".00">>

\* a payment of exactly 5000 under a policy with max_amount: 5000.0 is
\* allowed
AmountAtFloatLimitAllowed ==
    \E q \in Requests :
        /\ rpc[q] = "log"
        /\ seen[q] = [f \in {"a.yaml"} |-> PolicyFloat]
        /\ params[q]["amount"] = FloatV(5000)
        /\ decision[q] = Decision(TRUE, <<"Policy allows this action">>, 4)

\* C25: a condition whose name the evaluator has no predicate for, and a
\* built-in condition whose policy value has the wrong type (max_amount no
\* number, currencies no list, folder_prefix no string), never deny:
\* the Decision of the permission that decides is an allow unless one of
\* its built-in, well-typed conditions fails, in which case the reason is
\* that of such a condition. With no such condition the call is allowed
\* whatever the request params are.
UnknownAndIllTypedConditionsPass ==
    \A q \in Requests :
        (/\ rpc[q] \in {"log", "newline", "respond"}
         /\ HasMatch(seen[q], req[q].agent, req[q].tool, req[q].action)) =>
            LET perm == Matched(seen[q], req[q].agent, req[q].tool, req[q].action).perm
                active == {c \in DOMAIN perm.Conditions :
                              \/ c = "max_amount" /\ perm.Conditions[c].t \in {"int", "float64"}
                              \/ c = "currencies" /\ perm.Conditions[c].t = "list"
                              \/ c = "folder_prefix" /\ perm.Conditions[c].t = "string"}
                failing == {c \in active :
                               ConditionReason(c, perm.Conditions[c], params[q]) # <<>>}
            IN /\ decision[q].Allow = (failing = {})
               /\ active = {} => decision[q].Allow
               /\ ~decision[q].Allow =>
                     \E c \in failing :
                         decision[q].Reason = ConditionReason(c, perm.Conditions[c], params[q])

\* under a permission with max_amount: true, a condition time_window and
\* currencies [USD, 978], a payment in USD that names no amount is allowed
IllTypedMaxAmountIgnored ==
    \E q \in Requests :
        /\ rpc[q] = "log"
        /\ seen[q] = [f \in {"a.yaml"} |-> PolicyOdd]
        /\ req[q].agent = "finance-agent"
        /\ params[q] = [k \in {"currency"} |-> StrV(<<"USD">>)]
        /\ decision[q] = Decision(TRUE, <<"Policy allows this action">>, 6)

\* C26 (as stated): when a built-in condition of the permission that
\* decides has a well-typed policy value and the request field it refers
\* to is missing or has the wrong type, the Decision is a deny with the
\* reason 'Invalid <field> parameter' for that field.
MissingFieldDeniesWithItsReason ==
    \A q \in Requests :
        (/\ rpc[q] \in {"log", "newline", "respond"}
         /\ HasMatch(seen[q], req[q].agent, req[q].tool, req[q].action)) =>
            LET perm == Matched(seen[q], req[q].agent, req[q].tool, req[q].action).perm
                field(c) == CASE c = "max_amount" -> "amount"
                              [] c = "currencies" -> "currency"
                              [] OTHER -> "path"
                active == {c \in DOMAIN perm.Conditions :
                              \/ c = "max_amount" /\ perm.Conditions[c].t \in {"int", "float64"}
                              \/ c = "currencies" /\ perm.Conditions[c].t = "list"
                              \/ c = "folder_prefix" /\ perm.Conditions[c].t = "string"}
                bad == {c \in active :
                           \/ field(c) \notin DOMAIN params[q]
                           \/ params[q][field(c)].t #
                                  (IF c = "max_amount" THEN "float64" ELSE "string")}
            IN \A c \in bad :
                   /\ ~decision[q].Allow
                   /\ decision[q].Reason = <<"Invalid " \o field(c) \o " parameter">>

\* C26: when a built-in condition of the permission that decides has a
\* well-typed policy value and the request field it refers to is missing or
\* has the wrong type, the Decision is a deny, the call is answered 403 and
\* nothing is forwarded; the reason is 'Invalid <field> parameter' for that
\* field when no other condition of the permission fails, and otherwise the
\* reason of one of the failing conditions (the one check_conditions
\* reaches first).
MissingFieldDenies ==
    /\ [](\A q \in Requests :
             (/\ rpc[q] \in {"log", "newline", "respond"}
              /\ HasMatch(seen[q], req[q].agent, req[q].tool, req[q].action)) =>
                 LET perm == Matched(seen[q], req[q].agent, req[q].tool, req[q].action).perm
                     field(c) == CASE c = "max_amount" -> "amount"
                                   [] c = "currencies" -> "currency"
                                   [] OTHER -> "path"
                     active == {c \in DOMAIN perm.Conditions :
                                   \/ c = "max_amount"
                                        /\ perm.Conditions[c].t \in {"int", "float64"}
                                   \/ c = "currencies" /\ perm.Conditions[c].t = "list"
                                   \/ c = "folder_prefix" /\ perm.Conditions[c].t = "string"}
                     bad == {c \in active :
                                \/ field(c) \notin DOMAIN params[q]
                                \/ params[q][field(c)].t #
                                       (IF c = "max_amount" THEN "float64" ELSE "string")}
                     failing == {c \in DOMAIN perm.Conditions :
                                    ConditionReason(c, perm.Conditions[c], params[q]) # <<>>}
                 IN bad # {} =>
                        /\ ~decision[q].Allow
                        /\ posts[q] = <<>>
                        /\ \A c \in bad :
                               failing \subseteq {c} =>
                                   decision[q].Reason =
                                       <<"Invalid " \o field(c) \o " parameter">>
                        /\ \E c \in failing :
                               decision[q].Reason =
                                   ConditionReason(c, perm.Conditions[c], params[q]))
    /\ [][\A q \in Requests :
             (rpc[q] = "respond" /\ ~decision[q].Allow /\ rpc'[q] # "respond") =>
                 /\ rpc'[q] = "done"
                 /\ posts'[q] = <<>>
                 /\ resp'[q].status = 403
                 /\ resp'[q].reason = decision[q].Reason]_vars

\* a payment that names no amount, under a permission whose only condition
\* is max_amount 5000, was answered 403 'Invalid amount parameter' and
\* nothing was forwarded
MissingAmountAnswered403 ==
    \E q \in Requests :
        /\ rpc[q] = "done"
        /\ "amount" \notin DOMAIN params[q]
        /\ decision[q] = Decision(FALSE, <<"Invalid amount parameter">>, 3)
        /\ resp[q].status = 403
        /\ resp[q].reason = <<"Invalid amount parameter">>
        /\ posts[q] = <<>>

\* C27: when the permission that decides has folder_prefix, a string, as
\* its only condition and the request path is a string, the call is allowed
\* exactly when the path starts with the prefix, element by element, and is
\* denied otherwise with the reason 'Path <p> does not match required
\* prefix <pfx>'.
FolderPrefixIsPlainPrefix ==
    \A q \in Requests :
        (/\ rpc[q] \in {"log", "newline", "respond"}
         /\ HasMatch(seen[q], req[q].agent, req[q].tool, req[q].action)) =>
            LET perm == Matched(seen[q], req[q].agent, req[q].tool, req[q].action).perm
            IN (/\ DOMAIN perm.Conditions = {"folder_prefix"}
                /\ perm.Conditions["folder_prefix"].t = "string"
                /\ "path" \in DOMAIN params[q]
                /\ params[q]["path"].t = "string") =>
                   LET pfx == perm.Conditions["folder_prefix"].s
                       pth == params[q]["path"].s
                       starts == /\ Len(pfx) <= Len(pth)
                                 /\ \A i \in 1..Len(pfx) : pth[i] = pfx[i]
                   IN /\ decision[q].Allow = starts
                      /\ ~starts =>
                            decision[q].Reason =
                                <<"Path ">> \o pth
                                    \o <<" does not match required prefix ">> \o pfx

\* a read of /hr-docs-x/y under folder_prefix /hr-docs/ is denied
SiblingFolderDenied ==
    \E q \in Requests :
        /\ rpc[q] = "log"
        /\ params[q] = [k \in {"path"} |-> StrV(<<"/hr-docs", "-x", "/", "y">>)]
        /\ decision[q] = Decision(FALSE,
                                  <<"Path ", "/hr-docs", "-x", "/", "y",
                                    " does not match required prefix ", "/hr-docs", "/">>, 1)

\* C28: a policy that parses is kept by a load exactly when its version is
\* at least 1, it has at least one agent and no agent has an empty id:
\* such a file is in the published map with the policy it holds, any other
\* is not, and a map being built holds none that fails one of the three
\* tests. Nothing else of the policy (empty allow lists, condition names
\* and values) keeps it out.
ValidationRejectsExactlyThree ==
    /\ \A n \in {"a.yaml", "b.yaml"} :
          (lastPub.stable /\ lastPub.dir[n] \in AnyText /\ ~YamlUnmarshal(lastPub.dir[n]).err) =>
              LET pol == YamlUnmarshal(lastPub.dir[n]).pol
                  rejected == \/ pol.Version < 1
                              \/ pol.Agents = <<>>
                              \/ \E i \in 1..Len(pol.Agents) : pol.Agents[i].ID = ""
              IN /\ (n \in DOMAIN maps[policies]) = ~rejected
                 /\ ~rejected => maps[policies][n] = pol
    /\ \A r \in Reloaders :
          lpc[r] = "entries" =>
              \A n \in DOMAIN maps[newPolicies[r]] :
                  /\ maps[newPolicies[r]][n].Version >= 1
                  /\ maps[newPolicies[r]][n].Agents # <<>>
                  /\ \A i \in 1..Len(maps[newPolicies[r]][n].Agents) :
                         maps[newPolicies[r]][n].Agents[i].ID # ""

\* a reload of a directory whose a.yaml has a second agent without id and
\* whose b.yaml is valid has published b.yaml alone
EmptyAgentIDRejected ==
    /\ result["manual"] = "ok"
    /\ lastPub.stable
    /\ lastPub.dir["a.yaml"] = "yaml-empty-id"
    /\ DOMAIN maps[policies] = {"b.yaml"}

\* C29: once a call has been forwarded, what the gateway answers is what
\* came back: when the adapter responded, its status code and its body,
\* whatever the status; when the call failed in transport or timed out, or
\* the response could not be read, 502 with error AdapterError. 502
\* AdapterError is answered in no other case.
AdapterResponseRelayed ==
    \A q \in Requests :
        rpc[q] = "done" =>
            /\ Len(posts[q]) = 1 =>
                  LET reply == posts[q][1].reply
                  IN /\ reply.kind = "response" =>
                           /\ resp[q].status = reply.status
                           /\ resp[q].body = reply.body
                           /\ resp[q].error = ""
                     /\ reply.kind # "response" =>
                           /\ resp[q].status = 502
                           /\ resp[q].error = "AdapterError"
            /\ resp[q].error = "AdapterError" =>
                  /\ Len(posts[q]) = 1
                  /\ posts[q][1].reply.kind \in {"error", "unreadable"}

\* the adapter answered 500 to a forwarded call and the gateway answered
\* 500 with the adapter's body
AdapterFailureRelayed ==
    \E q \in Requests :
        /\ rpc[q] = "done"
        /\ decision[q].Allow
        /\ Len(posts[q]) = 1
        /\ posts[q][1].reply.kind = "response"
        /\ posts[q][1].reply.status = 500
        /\ resp[q].status = 500
        /\ resp[q].body = "{\"error\":\"adapter failed\"}"

\* C30 (as stated): every error response of the gateway, to a tool call or
\* to POST /policies/reload, has Content-Type application/json and a JSON
\* body with the key error and, at most, the key reason besides.
ErrorResponsesAreJson ==
    /\ \A q \in Requests :
          (rpc[q] = "done" /\ resp[q].error # "") =>
              /\ resp[q].contentType = "application/json"
              /\ "error" \in resp[q].keys
              /\ resp[q].keys \subseteq {"error", "reason"}
    /\ reloadResp.error # "" =>
          /\ reloadResp.contentType = "application/json"
          /\ "error" \in reloadResp.keys
          /\ reloadResp.keys \subseteq {"error", "reason"}

\* C31 (as stated): two requests that differ only in X-Parent-Agent, run
\* against the same published aggregate, get the same policy decision, the
\* same forwarding to the adapter and, the adapter answering both alike,
\* the same response; their audit records differ in parent_agent alone.
ParentAgentForAuditOnly ==
    \A q1 \in Requests, q2 \in Requests :
        (/\ rpc[q1] = "done" /\ rpc[q2] = "done"
         /\ req[q1].parent # req[q2].parent
         /\ WithoutParent(req[q1]) = WithoutParent(req[q2])) =>
            /\ decision[q1] = decision[q2]
            /\ Len(posts[q1]) = Len(posts[q2])
            /\ \A i \in 1..Len(posts[q1]) :
                  /\ posts[q1][i].url = posts[q2][i].url
                  /\ posts[q1][i].body = posts[q2][i].body
                  /\ posts[q1][i].reply = posts[q2][i].reply => resp[q1] = resp[q2]
            /\ posts[q1] = <<>> => resp[q1] = resp[q2]
            /\ \A i \in 1..Len(auditLog), j \in 1..Len(auditLog) :
                  (auditLog[i].trace_id = q1 /\ auditLog[j].trace_id = q2) =>
                      [auditLog[i] EXCEPT !.trace_id = "", !.parent_agent = ""]
                          = [auditLog[j] EXCEPT !.trace_id = "", !.parent_agent = ""]

AdapterNotFoundOnlyAfterAllow ==
    \A q \in Requests :
        (rpc[q] = "done" /\ resp[q].error = "AdapterNotFound") =>
            /\ resp[q].status = 404
            /\ decision[q].Allow
            /\ \E i \in 1..Len(auditLog) :
                  /\ auditLog[i].trace_id = q
                  /\ auditLog[i].decision_allow
                  /\ auditLog[i].tool = req[q].tool
            /\ req[q].tool \notin DOMAIN adapters
            /\ posts[q] = <<>>

\* C33 witness: a read of the archive, which the version-2 policy permits
\* and no adapter serves, answered 404
AllowedToolWithoutAdapter ==
    \E q \in Requests :
        /\ rpc[q] = "done"
        /\ req[q].tool = "archive"
        /\ "payments" \in DOMAIN adapters
        /\ decision[q].Allow
        /\ resp[q].status = 404
        /\ resp[q].error = "AdapterNotFound"

\* C34: a permission whose tool is the one asked for and whose actions do
\* not list the action asked for, letter for letter, decides nothing.
\* Whenever some permission of the aggregate for the agent and the tool
\* lists the action, the Decision is that of such a permission, the first
\* of its policy file, whatever permissions, agent entries or files without
\* the action come before it; otherwise it is the no-match denial.
UnlistedActionPermissionSkipped ==
    \A q \in Requests :
        rpc[q] \in {"log", "newline", "respond"} =>
            LET agg == snap[q].agg
                lists(f, i, j) ==
                    /\ agg[f].Agents[i].ID = req[q].agent
                    /\ agg[f].Agents[i].Allow[j].Tool = req[q].tool
                    /\ \E k \in 1..Len(agg[f].Agents[i].Allow[j].Actions) :
                           agg[f].Agents[i].Allow[j].Actions[k] = req[q].action
                places(f) ==
                    {ij \in UNION {{<<i, j>> : j \in 1..Len(agg[f].Agents[i].Allow)} :
                                       i \in 1..Len(agg[f].Agents)} :
                        lists(f, ij[1], ij[2])}
                applied(f, ij) ==
                    LET perm == agg[f].Agents[ij[1]].Allow[ij[2]]
                        failing == {c \in DOMAIN perm.Conditions :
                                       ConditionReason(c, perm.Conditions[c], params[q]) # <<>>}
                    IN /\ \A o \in places(f) :
                             ij[1] < o[1] \/ (ij[1] = o[1] /\ ij[2] <= o[2])
                       /\ decision[q].Version = agg[f].Version
                       /\ decision[q].Allow = (failing = {})
                       /\ failing # {} =>
                             \E c \in failing :
                                 decision[q].Reason =
                                     ConditionReason(c, perm.Conditions[c], params[q])
            IN IF \E f \in DOMAIN agg : places(f) # {}
               THEN \E f \in DOMAIN agg : \E ij \in places(f) : applied(f, ij)
               ELSE decision[q].Version = 0 /\ ~decision[q].Allow

\* C34 witness: a cancel of 1000 by finance-agent: the version-2 policy and
\* the first four permissions of the other file are for payments without
\* listing cancel, the last permission of the second agent entry lists it
\* with max_amount 100 and denies
LaterPermissionApplied ==
    \E q \in Requests :
        /\ rpc[q] = "log"
        /\ req[q].action = "cancel"
        /\ DOMAIN seen[q] = {"a.yaml", "b.yaml"}
        /\ seen[q]["b.yaml"] = PolicyV2
        /\ seen[q]["a.yaml"] = PolicyOrder
        /\ decision[q] = Decision(FALSE, <<"Amount ", "1000.00", " exceeds max_amount=",
                                           "100.00">>, 5)

\* C35 (as stated): a tool call with a non-empty X-Agent-ID whose body is
\* no JSON mapping (no byte, malformed text, an array, a scalar, null) is
\* answered 400 InvalidRequest; it is never evaluated against the policy,
\* no audit record is emitted for it and no adapter is sent a POST for it.
NonMappingBodyRejected ==
    \A q \in Requests :
        (/\ rpc[q] # "idle"
         /\ req[q].agent # ""
         /\ req[q].body \in NonMappingBodies) =>
            /\ rpc[q] = "done"
            /\ resp[q].status = 400
            /\ resp[q].error = "InvalidRequest"
            /\ decision[q] = NoDecision
            /\ \A i \in 1..Len(auditLog) : auditLog[i].trace_id # q
            /\ posts[q] = <<>>

\* C36: for a request that reached policy evaluation, the audit record is
\* emitted before the outcome, with the same fields on the allow and on the
\* deny path, all taken from the one Decision of the request: when the 403
\* response is written or a POST is sent to an adapter, the log already
\* holds the record of that request with its agent, tool, action, the
\* Decision's allow, reason and version and the digest of its parameters;
\* so a POST is sent only after a record with decision_allow true.
AuditPrecedesOutcome ==
    [][\A q \in Requests :
          (\/ posts'[q] # posts[q]
           \/ (rpc[q] # "done" /\ rpc'[q] = "done" /\ decision[q] # NoDecision)) =>
              /\ decision'[q] = decision[q]
              /\ \E i \in 1..Len(auditLog) :
                    /\ \A j \in 1..Len(auditLog) : auditLog[j].trace_id = q => j = i
                    /\ auditLog[i] =
                          [trace_id |-> q,
                           agent_id |-> req[q].agent,
                           tool |-> req[q].tool,
                           action |-> req[q].action,
                           decision_allow |-> decision[q].Allow,
                           reason |-> decision[q].Reason,
                           policy_version |-> decision[q].Version,
                           params_hash |-> HashParams(params[q]),
                           parent_agent |-> req[q].parent]
                    /\ posts'[q] # posts[q] => auditLog[i].decision_allow
                    /\ resp'[q].status = 403 =>
                          ~auditLog[i].decision_allow /\ resp'[q].reason = auditLog[i].reason]_vars

\* C36 witness: the record of an allowed call is in the log, written to the
\* file with its newline, and the POST to the adapter has not been sent
AuditedBeforeForward ==
    \E q \in Requests :
        /\ rpc[q] = "respond"
        /\ decision[q].Allow
        /\ req[q].tool \in DOMAIN adapters
        /\ posts[q] = <<>>
        /\ \E i \in 1..Len(auditLog) :
              auditLog[i].trace_id = q /\ auditLog[i].decision_allow

\* C37 (as stated): when two reloads overlap, the one that listed the
\* directory first cannot overwrite the result of the other. When it
\* publishes after the later one has finished, every policy file that has
\* not changed since the later reload listed the directory is in the
\* published aggregate exactly when the later reload published it: a file
\* created before the later reload started is present, a file removed
\* before it started is absent.
LaterReloadPrevails ==
    [][\A r \in Reloaders : \A x \in Reloaders \ {r} :
          (/\ lpc[r] = "entries" /\ lpc'[r] = "idle"
           /\ view[r].overtaken
           /\ lpc[x] = "idle"
           /\ lastPub.stable) =>
              \A n \in NameSet :
                  (HasYamlSuffix(n) /\ dir[n] = lastPub.dir[n]) =>
                      (n \in DOMAIN maps'[policies'] <=> n \in DOMAIN lastPub.agg)]_vars

\* C38: Evaluate and Reload release the policy lock they took on every
\* return path, and neither waits for ever: a goroutine holds the read lock
\* only while its Evaluate ranges and the write lock only while its
\* load_policies is in its loop; every Evaluate call that has been made
\* returns a Decision and every Reload that has been called returns,
\* whatever requests, watcher reloads and manual reloads interleave.
LockReleasedAndCallsReturn ==
    /\ [](\A q \in Requests : q \in mu.readers <=> rpc[q] = "range")
    /\ [](\A r \in Reloaders : mu.writer = r <=> lpc[r] = "entries")
    /\ \A q \in Requests : (rpc[q] \in {"evaluate", "range"}) ~> (rpc[q] = "log")
    /\ \A r \in Reloaders : (lpc[r] \in {"readdir", "lock", "entries"}) ~> (lpc[r] = "idle")

\* C38 witness: an Evaluate call waits in RLock for a reload that is in its
\* loop, while the other reload waits in Lock
EvaluateAndReloadWaitForLock ==
    \E q \in Requests : \E r \in Reloaders : \E x \in Reloaders \ {r} :
        /\ rpc[q] = "evaluate"
        /\ mu.writer = r
        /\ lpc[r] = "entries"
        /\ lpc[x] = "lock"

\* C39: only a reload changes the policy store. A step of a tool request,
\* whatever its outcome (400, 403, 404, 502, relayed), Evaluate included,
\* and a health check leave the published aggregate and the adapter map as
\* they are; the published aggregate changes only in the step in which a
\* reload publishes, and the adapter map never.
OnlyReloadChangesStore ==
    [][/\ adapters' = adapters
       /\ (\/ healthResp' # healthResp
           \/ \E q \in Requests : rpc'[q] # rpc[q] \/ visited'[q] # visited[q]) =>
              (policies' = policies /\ maps'[policies'] = maps[policies])
       /\ (policies' # policies \/ maps'[policies'] # maps[policies]) =>
              \E r \in Reloaders : lpc[r] = "entries" /\ lpc'[r] = "idle"]_vars

\* C39 witness: a health check has been answered and a tool call relayed
\* the failure of its adapter, and the aggregate loaded at the start is
\* still the published one
AnsweredWithStoreUntouched ==
    \E q \in Requests :
        /\ healthResp.status = 200
        /\ rpc[q] = "done"
        /\ resp[q].status = 500
        /\ lpc["manual"] = "idle"
        /\ result["manual"] = "none"
        /\ maps[policies] = ValidPolicies(dir)

====
